---- MODULE Spec2Model ----
(***************************************************************************)
(* Model of the ranking-probability engine of olympic_predictions:         *)
(*   src/model.py      PlackettLuceModel (exact gold/silver/bronze)        *)
(*   src/simulator.py  MonteCarloSimulator (Gumbel-max sampling)           *)
(*                                                                         *)
(* Python floats are modelled by exact rationals [num, den] in lowest      *)
(* terms with den > 0.  The one place where rounding changes the control   *)
(* flow is a division whose divisor is zero in exact arithmetic: the float *)
(* divisor is then either exactly 0.0 (Python raises ZeroDivisionError) or *)
(* a rounding residue (Python returns numerator / residue).  Both outcomes *)
(* are modelled where the operands are not exact floats, see Quot,         *)
(* Residues and ResiduesAt.  strength_power ranges over integer-valued     *)
(* exponents.                                                              *)
(***************************************************************************)
EXTENDS Integers, Sequences, FiniteSets, TLC

\* Bounds of the model.
MaxAthletes == 4        \* longest field
MaxScore == 3           \* largest raw score
NegScore == 1           \* raw scores range over -NegScore..MaxScore
MaxPower == 3           \* strength_power ranges over 1..MaxPower
ResidueInv == 100       \* 1 / (rounding residue of a divisor that is 0 in exact arithmetic)
SimMaxAthletes == 3     \* longest field handed to the simulator
SimMaxScore == 2        \* the simulator's raw scores range over 0..SimMaxScore
MaxSimulations == 2     \* config.num_simulations ranges over 0..MaxSimulations
MaxSimCalls == 1        \* calls of simulate_competition in one run
MaxZeroDraws == 1       \* most consecutive 0.0 results of random.random() in one gumbel_noise
MaxExp == 2             \* random.random() returns 0 or 2^-e, e in 1..MaxExp
MaxGauss == 1           \* random.gauss() returns g * ln 2, g # 0 in -MaxGauss..MaxGauss
MaxSimulators == 2      \* MonteCarloSimulator objects constructed in one run
MaxSeed == 1            \* config.seed is None or in 1..MaxSeed
MaxTrials == 2          \* trials of one run_simulation
MaxCompetitions == 2    \* competitions that entries refer to
MaxEntrants == 3        \* most entries of one competition
BatchMaxScore == 2      \* the entries' scores range over 0..BatchMaxScore
MaxDivisor == 2         \* gumbel_noise() returns -log(w), w in 1..MaxDivisor
MaxMultiplier == 2      \* sample_strength_multiplier() returns 1..MaxMultiplier
MaxRecords == 3         \* longest simulation_results handed to calculate_confidence_intervals
MaxCount == 2           \* most gold medals of a country in one of its records
MaxToleranceInv == 2    \* validate_convergence's tolerance is 0.02 or 1/d, d in 2..MaxToleranceInv

\* Program constants.
DefaultPower == 2       \* PlackettLuceModel(strength_power=2.0)
TOP_N_CONTENDERS == 20  \* v2: only the top N athletes compete for medals

\* NUM_SIMULATIONS = 10000 (predict.py, v1, v2) or 100000 (v3), cut to the
\* bound on trials
NUM_SIMULATIONS == MaxTrials

VARIABLES
    athletes,        \* the caller's List[AthleteStrength]; predict() mutates .strength in place
    strength_power,  \* PlackettLuceModel.strength_power
    called,          \* the method that ran last: "none", "predict", "calculate_strengths", ...
    raised,          \* the exception the last call ended with, or "none"
    predictions,     \* the list predict() returned last
    validation,      \* <<>> or <<the dict validate_predictions() returned last>>
    config,          \* SimulationConfig: num_simulations, extra_noise_scale
    sim_pc,          \* "idle", or "running" inside the trial loop of simulate_competition
    simulators,      \* MonteCarloSimulator objects constructed so far
    sim_calls,       \* calls of simulate_competition on the current simulator
    rng,             \* the state of the module-level generator of random
    tape,            \* what the generator seeded with config.seed returns, as far as drawn
    started,         \* the generator's state at the last call of simulate_competition
    runs,            \* the calls of simulate_competition that returned, in order:
                     \* the generator's state at the call, the number of the
                     \* call on its simulator, and the list returned
    exact_by_id,     \* simulate_competition's exact predictions, by athlete_id
    medal_counts,    \* simulate_competition's medal_counts, by athlete_id
    trials,          \* calls of simulate_once so far
    draws,           \* calls of random.random() and random.gauss() so far
    results,         \* the list simulate_competition() returned last
    variant,         \* the run_simulation at work: "predict", "v1", "v2" or "v3"
    athlete_table,   \* the dict athletes: id -> {"id", "country"}
    competitions,    \* the dict competitions: id -> {"id", "scoring_type"} (through its sport)
    entries,         \* the list entries
    run_pc,          \* run_simulation: "idle", "trial" (top of the trial loop),
                     \* "comps" (inside the loop over competitions), "done"
    comp_entries,    \* comp_entries (predict.py), entries_by_comp (v1, v2, v3)
    all_athlete_ids, \* v3: set(e["athlete_id"] for e in entries)
    sim_idx,         \* trials completed
    comp_idx,        \* the competition the inner loop is at
    athlete_multipliers, \* v3: athlete_id -> multiplier of this trial
    sampled,         \* v3: calls of sample_strength_multiplier() so far
    applied,         \* v3: the multipliers simulate_competition applied in this
                     \* trial: {competition_id, athlete_id, multiplier, defaulted}
    sim_medals,      \* country -> medals of this trial
    country_medals,  \* country -> medals of all trials (medal_totals in v1, v2)
    comp_results,    \* competition_id -> athlete_id -> medals (comp_athlete_medals)
    simulation_results, \* dict(sim_medals) of every trial
    country_results, \* the country -> averages that run_simulation returns
    athlete_results, \* CompetitionResult.athlete_results of the last breakdown
    breakdown,       \* what get_country_breakdown() returned
    ci_args,         \* the last call of calculate_confidence_intervals
    intervals,       \* ... and what it returned
    convergence,     \* <<>> or <<the dict validate_convergence() returned last>>
    warnings,        \* the categories of the warnings issued so far
    calls_on,        \* simulator object -> calls of its simulate_competition, where
                     \* the caller keeps the earlier simulators
    on,              \* ... and the simulator object called last, or 0
    database,        \* the SQLite database: the tables competitions, athletes,
                     \* excluded_athletes and entries, and the pipelines that ran
    loaded           \* load_data_from_db() has returned

model_vars == <<athletes, strength_power, called, raised, predictions, validation>>

sim_vars == <<config, sim_pc, simulators, sim_calls, rng, tape, started, runs,
              exact_by_id, medal_counts, trials, draws, results>>

batch_vars == <<variant, athlete_table, competitions, entries, run_pc, comp_entries,
                all_athlete_ids, sim_idx, comp_idx, athlete_multipliers, sampled,
                applied, sim_medals, country_medals, comp_results, simulation_results,
                country_results>>

report_vars == <<athlete_results, breakdown, ci_args, intervals, convergence, warnings,
                 calls_on, on, database, loaded>>

vars == <<model_vars, sim_vars, batch_vars, report_vars>>

----------------------------------------------------------------------------
\* Exact rational arithmetic standing for Python's float arithmetic.

Abs(x) == IF x < 0 THEN 0 - x ELSE x

RECURSIVE GCD(_, _)
GCD(a, b) == IF b = 0 THEN a ELSE GCD(b, a % b)

Rat(n, d) ==
    LET g == GCD(Abs(n), Abs(d))
        s == IF d < 0 THEN 0 - 1 ELSE 1
    IN  [num |-> s * (n \div g), den |-> s * (d \div g)]

Zero == [num |-> 0, den |-> 1]
One == [num |-> 1, den |-> 1]

RAdd(a, b) ==
    LET g == GCD(a.den, b.den)
    IN  Rat(a.num * (b.den \div g) + b.num * (a.den \div g), (a.den \div g) * b.den)

RNeg(a) == [num |-> 0 - a.num, den |-> a.den]

RSub(a, b) == RAdd(a, RNeg(b))

\* a * b; cancelling crosswise keeps lowest terms
RMul(a, b) ==
    LET g1 == GCD(Abs(a.num), b.den)
        g2 == GCD(Abs(b.num), a.den)
    IN  [num |-> (a.num \div g1) * (b.num \div g2), den |-> (a.den \div g2) * (b.den \div g1)]

\* 1 / b for b # 0
RInv(b) ==
    IF b.num < 0 THEN [num |-> 0 - b.den, den |-> 0 - b.num]
    ELSE [num |-> b.den, den |-> b.num]

\* a / b for b # 0
RDivide(a, b) == RMul(a, RInv(b))

RLess(a, b) ==
    LET g == GCD(a.den, b.den)
    IN  a.num * (b.den \div g) < b.num * (a.den \div g)

RLeq(a, b) == a = b \/ RLess(a, b)

RAbs(a) == [num |-> Abs(a.num), den |-> a.den]

RECURSIVE RPow(_, _)
RPow(a, p) == IF p = 0 THEN One ELSE RMul(a, RPow(a, p - 1))

\* sum(xs) of a list of floats, left to right from 0
RECURSIVE RSumTo(_, _)
RSumTo(xs, k) == IF k = 0 THEN Zero ELSE RAdd(RSumTo(xs, k - 1), xs[k])

RSum(xs) == RSumTo(xs, Len(xs))

\* The outcomes of a float division whose divisor is 0 in exact arithmetic:
\* Zero stands for "the float divisor is exactly 0.0" (ZeroDivisionError),
\* the others for 1/residue of a divisor that rounding left nonzero.
Residues == {Zero, Rat(ResidueInv, 1), Rat(0 - ResidueInv, 1)}

\* a is a binary fraction, which a float holds exactly
RECURSIVE IsPowerOfTwo(_)
IsPowerOfTwo(d) == d = 1 \/ (d % 2 = 0 /\ IsPowerOfTwo(d \div 2))

IsDyadic(a) == IsPowerOfTwo(a.den)

\* x / y as the float division computes it
Quot(x, y, residue) == IF y.num = 0 THEN RMul(x, residue) ELSE RDivide(x, y)

\* a division by one of divisors raises ZeroDivisionError
DivRaises(divisors, residue) == residue = Zero /\ \E d \in divisors : d.num = 0

----------------------------------------------------------------------------
\* src/model.py

Scores == (0 - NegScore)..MaxScore
Powers == 1..MaxPower

\* AthleteStrength(athlete_id, name, country, score, strength)
AthleteStrength(id, score, strength) ==
    [athlete_id |-> id, score |-> score, strength |-> strength]

\* create_athletes_from_scores: strength = 0, "will be calculated by model"
create_athletes_from_scores(data) ==
    [i \in 1..Len(data) |-> AthleteStrength(i, data[i], Zero)]

Fields == UNION {[1..n -> Scores] : n \in 0..MaxAthletes}

\* max(a.score for a in athletes), athletes non-empty
RECURSIVE MaxScoreTo(_, _)
MaxScoreTo(as, k) ==
    IF k = 1 THEN as[1].score
    ELSE LET m == MaxScoreTo(as, k - 1) IN IF as[k].score > m THEN as[k].score ELSE m

max_score_of(as) == MaxScoreTo(as, Len(as))

\* Strength with the exponent left out
Strength_NoPower(score, max_score, power) == Rat(score, max_score)

\* relative_score = a.score / max_score; a.strength = relative_score ** power
Strength(score, max_score, power) == RPow(Rat(score, max_score), power)

\* calculate_strengths: [raised, athletes]; the list is mutated in place
calculate_strengths(as, power) ==
    IF Len(as) = 0 THEN [raised |-> "none", athletes |-> as]
    ELSE LET with_max(max_score) ==
                 IF max_score = 0
                 THEN [raised |-> "ZeroDivisionError", athletes |-> as]
                 ELSE [raised |-> "none",
                       athletes |-> [i \in 1..Len(as) |->
                           [as[i] EXCEPT !.strength = Strength(as[i].score, max_score, power)]]]
         IN  with_max(max_score_of(as))

\* gold_probability dividing by the strength of the others
gold_probability_Odds(strengths, i, residue) ==
    Quot(strengths[i], RSub(RSum(strengths), strengths[i]), residue)

\* _gold_probability: strengths[athlete_idx] / sum(strengths)
gold_probability(strengths, i, residue) ==
    Quot(strengths[i], RSum(strengths), residue)

\* silver_probability without "if k == athlete_idx: continue"
silver_probability_NoSkip(strengths, i, residue) ==
    LET n == Len(strengths)
        s_i == strengths[i]
        sum_over(S) ==
            LET RECURSIVE acc(_)
                acc(k) ==
                    IF k = 0 THEN Zero
                    ELSE LET p_k_wins == Quot(strengths[k], S, residue)
                             remaining_strength == RSub(S, strengths[k])
                             p_i_second_given_k == Quot(s_i, remaining_strength, residue)
                         IN  RAdd(acc(k - 1), RMul(p_k_wins, p_i_second_given_k))
            IN  acc(n)
    IN  sum_over(RSum(strengths))

\* _silver_probability
silver_probability(strengths, i, residue) ==
    LET n == Len(strengths)
        s_i == strengths[i]
        sum_over(S) ==
            LET RECURSIVE acc(_)
                acc(k) ==
                    IF k = 0 THEN Zero
                    ELSE IF k = i THEN acc(k - 1)
                    ELSE LET p_k_wins == Quot(strengths[k], S, residue)
                             remaining_strength == RSub(S, strengths[k])
                             p_i_second_given_k == Quot(s_i, remaining_strength, residue)
                         IN  RAdd(acc(k - 1), RMul(p_k_wins, p_i_second_given_k))
            IN  acc(n)
    IN  sum_over(RSum(strengths))

\* bronze_probability dividing s_i by remaining_after_k, s_j not removed
bronze_probability_StaleRemainder(strengths, i, residue) ==
    LET n == Len(strengths)
        s_i == strengths[i]
        inner(k, p_k_wins, remaining_after_k) ==
            LET RECURSIVE acc(_)
                acc(j) ==
                    IF j = 0 THEN Zero
                    ELSE IF j = i \/ j = k THEN acc(j - 1)
                    ELSE LET s_j == strengths[j]
                             p_j_second_given_k == Quot(s_j, remaining_after_k, residue)
                             p_i_third_given_kj == Quot(s_i, remaining_after_k, residue)
                         IN  RAdd(acc(j - 1),
                                  RMul(RMul(p_k_wins, p_j_second_given_k), p_i_third_given_kj))
            IN  acc(n)
        sum_over(S) ==
            LET RECURSIVE outer(_)
                outer(k) ==
                    IF k = 0 THEN Zero
                    ELSE IF k = i THEN outer(k - 1)
                    ELSE RAdd(outer(k - 1),
                              inner(k, Quot(strengths[k], S, residue), RSub(S, strengths[k])))
            IN  outer(n)
    IN  sum_over(RSum(strengths))

\* _bronze_probability
bronze_probability(strengths, i, residue) ==
    LET n == Len(strengths)
        s_i == strengths[i]
        inner(k, p_k_wins, remaining_after_k) ==
            LET RECURSIVE acc(_)
                acc(j) ==
                    IF j = 0 THEN Zero
                    ELSE IF j = i \/ j = k THEN acc(j - 1)
                    ELSE LET s_j == strengths[j]
                             p_j_second_given_k == Quot(s_j, remaining_after_k, residue)
                             remaining_after_kj == RSub(remaining_after_k, s_j)
                             p_i_third_given_kj == Quot(s_i, remaining_after_kj, residue)
                         IN  RAdd(acc(j - 1),
                                  RMul(RMul(p_k_wins, p_j_second_given_k), p_i_third_given_kj))
            IN  acc(n)
        sum_over(S) ==
            LET RECURSIVE outer(_)
                outer(k) ==
                    IF k = 0 THEN Zero
                    ELSE IF k = i THEN outer(k - 1)
                    ELSE RAdd(outer(k - 1),
                              inner(k, Quot(strengths[k], S, residue), RSub(S, strengths[k])))
            IN  outer(n)
    IN  sum_over(RSum(strengths))

\* The divisors the three functions meet over all athlete_idx of a field:
\* total / S, remaining_strength / remaining_after_k (some athlete_idx # k
\* exists when n >= 2) and remaining_after_kj (some athlete_idx outside
\* {k, j} exists when n >= 3).
divisors(strengths) ==
    LET n == Len(strengths)
        from(S) ==
            {S} \cup {RSub(S, strengths[k]) : k \in {x \in 1..n : n >= 2}}
                \cup {RSub(RSub(S, strengths[kj[1]]), strengths[kj[2]]) :
                          kj \in {x \in (1..n) \X (1..n) : x[1] # x[2] /\ n >= 3}}
    IN  from(RSum(strengths))

\* the guard letting fields of 2 through
TooFew_OffByOne(as) == Len(as) < 2

\* the guard of predict and of simulate_competition: len(athletes) < 3
TooFew(as) == Len(as) < 3

\* AthletePrediction
AthletePrediction(a, gold, silver, bronze) ==
    [athlete_id |-> a.athlete_id, score |-> a.score, strength |-> a.strength,
     gold_prob |-> gold, silver_prob |-> silver, bronze_prob |-> bronze]

\* predict: [raised, athletes, predictions]
predict(as, power, residue) ==
    IF TooFew(as) THEN [raised |-> "none", athletes |-> as, predictions |-> <<>>]
    ELSE LET n == Len(as)
             probabilities(cs, strengths) ==
                 IF cs.raised # "none" \/ DivRaises(divisors(strengths), residue)
                 THEN [raised |-> "ZeroDivisionError", athletes |-> cs.athletes,
                       predictions |-> <<>>]
                 ELSE [raised |-> "none", athletes |-> cs.athletes,
                       predictions |-> [i \in 1..n |->
                           AthletePrediction(cs.athletes[i],
                                             gold_probability(strengths, i, residue),
                                             silver_probability(strengths, i, residue),
                                             bronze_probability(strengths, i, residue))]]
             with_strengths(cs) ==
                 probabilities(cs, [i \in 1..n |-> cs.athletes[i].strength])
         IN  with_strengths(calculate_strengths(as, power))

\* The rounding outcomes predict can meet on this field.  The residue matters
\* only where a divisor is 0 in exact arithmetic, and rounding can leave a
\* residue only if some strength is not a float: sums and differences of
\* small dyadic strengths are exact, and the divisor is then exactly 0.0.
ResiduesAt(as, power) ==
    LET n == Len(as)
        inexact(strengths) ==
            /\ \E i \in 1..n : ~IsDyadic(strengths[i])
            /\ \E d \in divisors(strengths) : d.num = 0
        at(cs) ==
            IF cs.raised = "none" /\ inexact([i \in 1..n |-> cs.athletes[i].strength])
            THEN Residues ELSE {Zero}
    IN  IF TooFew(as) THEN {Zero} ELSE at(calculate_strengths(as, power))

\* validate_predictions
Tolerance == Rat(1, 1000)

SumValid(total) == RLess(RAbs(RSub(total, One)), Tolerance)

validate_predictions(ps) ==
    LET gold_sum == RSum([i \in 1..Len(ps) |-> ps[i].gold_prob])
        silver_sum == RSum([i \in 1..Len(ps) |-> ps[i].silver_prob])
        bronze_sum == RSum([i \in 1..Len(ps) |-> ps[i].bronze_prob])
    IN  [gold_sum |-> gold_sum, silver_sum |-> silver_sum, bronze_sum |-> bronze_sum,
         gold_valid |-> SumValid(gold_sum),
         silver_valid |-> SumValid(silver_sum),
         bronze_valid |-> SumValid(bronze_sum),
         all_valid |-> SumValid(gold_sum) /\ SumValid(silver_sum) /\ SumValid(bronze_sum)]

----------------------------------------------------------------------------
\* src/simulator.py

\* Optional[int]: None, or <<s>> for the int s
None == <<>>

Seeds == {None} \cup {<<s>> : s \in 1..MaxSeed}

\* SimulationConfig(num_simulations, extra_noise_scale, seed)
SimulationConfig(num_simulations, extra_noise_scale, seed) ==
    [num_simulations |-> num_simulations, extra_noise_scale |-> extra_noise_scale,
     seed |-> seed]

\* The module-level generator.  Seeded, its results are a function of the
\* seed and of the calls made since: tape holds them as far as they were
\* drawn, pos is the number of athletes served since random.seed() and calls
\* the number of random.random() and random.gauss() calls since.  Not seeded,
\* its state is the system's entropy and its results are arbitrary.
Unseeded == [seeded |-> FALSE, pos |-> 0, calls |-> 0]

\* random.seed(seed)
random_seed(seed) == [seeded |-> TRUE, pos |-> 0, calls |-> 0]

\* a constructor that leaves the generator as it is
MonteCarloSimulator_NoSeed(generator, cfg) == generator

\* MonteCarloSimulator.__init__: the generator it leaves
MonteCarloSimulator(generator, cfg) ==
    IF cfg.seed # None THEN random_seed(cfg.seed[1]) ELSE generator

\* max(a.strength, 0.0001)
StrengthFloor == Rat(1, 10000)

\* the strength as it is
floored_None(strength) == strength

floored(strength) == IF RLess(strength, StrengthFloor) THEN StrengthFloor ELSE strength

RECURSIVE Pow2(_)
Pow2(k) == IF k = 0 THEN 1 ELSE 2 * Pow2(k - 1)

\* One athlete's draws in simulate_once: zeros results 0.0 of random.random()
\* that gumbel_noise throws away, then u = 2^-e; and, when extra_noise_scale
\* > 0, random.gauss() = g * ln 2 (g = 0 when it is not called).
Draw(zeros, e, g) == [zeros |-> zeros, e |-> e, g |-> g]

\* draws with a random.gauss() result whatever the scale
AthleteDraws_AlwaysGauss(extra_noise_scale) ==
    {Draw(z, e, g) : z \in 0..MaxZeroDraws, e \in 1..MaxExp,
                     g \in ((0 - MaxGauss)..MaxGauss) \ {0}}

AthleteDraws(extra_noise_scale) ==
    {Draw(z, e, g) : z \in 0..MaxZeroDraws, e \in 1..MaxExp,
                     g \in IF extra_noise_scale > 0
                           THEN ((0 - MaxGauss)..MaxGauss) \ {0} ELSE {0}}

\* The draws the generator can serve the n athletes of one simulate_once:
\* what it served at the same position after the same seed, else anything.
DrawsFrom(generator, served, n, extra_noise_scale) ==
    IF generator.seeded /\ generator.pos + n <= Len(served)
    THEN {[i \in 1..n |-> served[generator.pos + i]]}
    ELSE {ds \in [1..n -> AthleteDraws(extra_noise_scale)] :
             \A i \in 1..n :
                 (generator.seeded /\ generator.pos + i <= Len(served))
                     => ds[i] = served[generator.pos + i]}

\* the tape after ds were served
Served(generator, served, ds) ==
    IF generator.seeded
    THEN [i \in 1..(IF generator.pos + Len(ds) > Len(served)
                    THEN generator.pos + Len(ds) ELSE Len(served)) |->
             IF i <= Len(served) THEN served[i] ELSE ds[i - generator.pos]]
    ELSE served

\* the generator calls of one simulate_once: per athlete the random.random()
\* calls of gumbel_noise and, when extra_noise_scale > 0, one random.gauss()
generator_calls(ds, extra_noise_scale) ==
    LET RECURSIVE upto(_)
        upto(i) == IF i = 0 THEN 0
                   ELSE upto(i - 1) + ds[i].zeros + 1
                        + (IF extra_noise_scale > 0 THEN 1 ELSE 0)
    IN  upto(Len(ds))

\* the results of random.random() behind one athlete's draws, in order
random_outputs(d) ==
    [k \in 1..(d.zeros + 1) |-> IF k <= d.zeros THEN Zero ELSE Rat(1, Pow2(d.e))]

\* gumbel_noise on these results of random.random(): the u whose logarithms
\* it takes and the calls it has made, u = random.random() and then one
\* more call for every u == 0
gumbel_noise(outputs) ==
    LET k == CHOOSE j \in 1..Len(outputs) :
                 outputs[j] # Zero /\ \A i \in 1..(j - 1) : outputs[i] = Zero
    IN  [u |-> outputs[k], calls |-> k]

\* noisy_value = log_strength + gumbel + extra_noise, with gumbel =
\* -log(-log(u)) = -log(e * ln 2): exp(noisy_value) * ln 2 = strength * 2^g / e.
\* noisy_above(a, da, b, db): a's noisy_value is above b's
noisy_above(sa, da, sb, db) ==
    LET fa == floored(sa)
        fb == floored(sb)
    IN  fa.num * Pow2(da.g + MaxGauss) * db.e * fb.den
            > fb.num * Pow2(db.g + MaxGauss) * da.e * fa.den

\* noisy_results.sort(key=lambda x: -x[0]): the place of athlete i, the sort
\* being stable
place(as, ds, i) ==
    1 + Cardinality({j \in 1..Len(as) :
                        \/ noisy_above(as[j].strength, ds[j], as[i].strength, ds[i])
                        \/ /\ j < i
                           /\ ~noisy_above(as[i].strength, ds[i], as[j].strength, ds[j])})

\* simulate_once: (gold_id, silver_id, bronze_id), or IndexError on a field
\* of fewer than 3
simulate_once(as, ds) ==
    IF Len(as) < 3 THEN [raised |-> "IndexError", medals |-> <<>>]
    ELSE [raised |-> "none",
          medals |-> [m \in 1..3 |->
                         as[CHOOSE i \in 1..Len(as) : place(as, ds, i) = m].athlete_id]]

\* the bronze not counted
award_NoBronze(counts, medals) ==
    [id \in DOMAIN counts |->
        [gold |-> counts[id].gold + (IF medals[1] = id THEN 1 ELSE 0),
         silver |-> counts[id].silver + (IF medals[2] = id THEN 1 ELSE 0),
         bronze |-> counts[id].bronze]]

\* medal_counts[gold_id]["gold"] += 1 and so on
award(counts, medals) ==
    [id \in DOMAIN counts |->
        [gold |-> counts[id].gold + (IF medals[1] = id THEN 1 ELSE 0),
         silver |-> counts[id].silver + (IF medals[2] = id THEN 1 ELSE 0),
         bronze |-> counts[id].bronze + (IF medals[3] = id THEN 1 ELSE 0)]]

\* SimulatedResult
SimulatedResult(a, exact, counts, num_simulations) ==
    [athlete_id |-> a.athlete_id,
     exact_gold_prob |-> exact.gold_prob,
     exact_silver_prob |-> exact.silver_prob,
     exact_bronze_prob |-> exact.bronze_prob,
     sim_gold_prob |-> Rat(counts.gold, num_simulations),
     sim_silver_prob |-> Rat(counts.silver, num_simulations),
     sim_bronze_prob |-> Rat(counts.bronze, num_simulations)]

\* the difference with its sign
gold_error_Signed(r) == RSub(r.sim_gold_prob, r.exact_gold_prob)

\* SimulatedResult.gold_error
gold_error(r) == RAbs(RSub(r.sim_gold_prob, r.exact_gold_prob))

\* max(xs) of a non-empty list of floats
RECURSIVE RMaxTo(_, _)
RMaxTo(xs, k) ==
    IF k = 1 THEN xs[1]
    ELSE LET m == RMaxTo(xs, k - 1) IN IF RLess(m, xs[k]) THEN xs[k] ELSE m

\* validate_convergence(results, tolerance): the summary, or the ValueError
\* of max() on an empty list; it issues no warning
validate_convergence(rs, tolerance, num_simulations) ==
    IF Len(rs) = 0 THEN [raised |-> "ValueError", summary |-> <<>>]
    ELSE LET gold_errors == [i \in 1..Len(rs) |-> gold_error(rs[i])]
             max_error == RMaxTo(gold_errors, Len(gold_errors))
             avg_error == RDivide(RSum(gold_errors), Rat(Len(gold_errors), 1))
         IN  [raised |-> "none",
              summary |-> <<[converged |-> RLess(max_error, tolerance),
                             max_gold_error |-> max_error,
                             avg_gold_error |-> avg_error,
                             tolerance |-> tolerance,
                             num_simulations |-> num_simulations]>>]

----------------------------------------------------------------------------
\* src/predict.py and src/prediction/{v1,v2,v3}/predict.py: run_simulation.
\* A dict is a function on its keys, in no order; a dict that is iterated
\* (comp_entries, entries_by_comp) is the sequence of its items in insertion
\* order.

Variants == {"predict", "v1", "v2", "v3"}

\* {"gold": 0, "silver": 0, "bronze": 0}
NoMedals == [gold |-> 0, silver |-> 0, bronze |-> 0]

MedalTypes == <<"gold", "silver", "bronze">>

EmptyDict == [k \in {} |-> NoMedals]

\* d[key][medal_type] += 1 on a defaultdict of NoMedals
Incremented(d, key, medal_type) ==
    [k \in DOMAIN d \cup {key} |->
        IF k = key
        THEN [(IF key \in DOMAIN d THEN d[key] ELSE NoMedals) EXCEPT ![medal_type] = @ + 1]
        ELSE d[k]]

\* d[outer][inner][medal_type] += 1 on a defaultdict of defaultdicts
Incremented2(d, outer, inner, medal_type) ==
    [k \in DOMAIN d \cup {outer} |->
        IF k = outer
        THEN Incremented(IF outer \in DOMAIN d THEN d[outer] ELSE EmptyDict,
                         inner, medal_type)
        ELSE d[k]]

\* an item of entries: {"athlete_id": .., "competition_id": .., "score": ..}
Entry(athlete_id, competition_id, score) ==
    [athlete_id |-> athlete_id, competition_id |-> competition_id, score |-> score]

\* for entry in es: by_comp[entry["competition_id"]].append(entry)
RECURSIVE Grouped(_, _)
Grouped(es, k) ==
    IF k = 0 THEN <<>>
    ELSE LET g == Grouped(es, k - 1)
             e == es[k]
             at == {i \in 1..Len(g) : g[i].comp_id = e.competition_id}
         IN  IF at = {}
             THEN Append(g, [comp_id |-> e.competition_id, entries |-> <<e>>])
             ELSE [i \in 1..Len(g) |->
                      IF i \in at THEN [g[i] EXCEPT !.entries = Append(@, e)] ELSE g[i]]

\* entries_by_comp of v1, v2 and v3: every entry, by its competition_id
entries_by_comp(es) == Grouped(es, Len(es))

\* build_competition_entries of predict.py: only the entries whose athlete
\* and competition are known
build_competition_entries(comps, aths, es) ==
    LET RECURSIVE kept(_)
        kept(k) == IF k = 0 THEN <<>>
                   ELSE IF es[k].athlete_id \in DOMAIN aths
                           /\ es[k].competition_id \in DOMAIN comps
                        THEN Append(kept(k - 1), es[k])
                        ELSE kept(k - 1)
    IN  entries_by_comp(kept(Len(es)))

\* get_scoring_type: the competition's sport's scoring_type, else "wc_points"
get_scoring_type(comp_id, comps) ==
    IF comp_id \in DOMAIN comps THEN comps[comp_id].scoring_type ELSE "wc_points"

\* max(x, floor)
AtLeast(x, floor) == IF RLess(x, floor) THEN floor ELSE x

\* The performance of an entrant is log(strength) + gumbel_noise(), and
\* gumbel_noise() = -log(w) for the w > 0 that the uniform draw u stands for
\* (w = (-log u)^(TEMPERATURE * PERFORMANCE_VARIANCE)): exp(performance) =
\* strength / w.
Performance(strength, w) == RDivide(strength, Rat(w, 1))

\* list.sort(key=lambda x: -x[..]), stable: the place of item i
PlaceOf(perfs, i) ==
    1 + Cardinality({j \in 1..Len(perfs) :
                        \/ RLess(perfs[i], perfs[j])
                        \/ j < i /\ perfs[j] = perfs[i]})

\* the indices of the items at places 1, 2 and 3
TopThree(perfs) == [m \in 1..3 |-> CHOOSE i \in 1..Len(perfs) : PlaceOf(perfs, i) = m]

\* the results of gumbel_noise() for n entrants
GumbelDraws(n) == [1..n -> 1..MaxDivisor]

\* an athlete id, or None
Some(x) == <<x>>

\* athletes = [ids]; while len(athletes) < 3: athletes.append(None);
\* tuple(athletes[:3])
Padded(es) == [m \in 1..3 |-> IF m <= Len(es) THEN Some(es[m].athlete_id) ELSE None]

\* predict.py simulate_competition: the top 3 athlete dicts, [] below 3 entries
predict_simulate_competition(es, aths, ws) ==
    IF Len(es) < 3 THEN <<>>
    ELSE LET noisy == [i \in 1..Len(es) |->
                          Performance(AtLeast(Rat(es[i].score, 1), Rat(1, 100)), ws[i])]
             top == TopThree(noisy)
         IN  [m \in 1..3 |-> aths[es[top[m]].athlete_id]]

\* v1 normalize_scores: (athlete_id, probability) per entry
normalize_scores(es, scoring_type) ==
    LET strengths == [i \in 1..Len(es) |->
                         IF scoring_type = "world_ranking"
                         THEN RInv(AtLeast(Rat(es[i].score, 1), One))
                         ELSE AtLeast(Rat(es[i].score, 1), Zero)]
        normalized(total) ==
            [i \in 1..Len(es) |->
                [athlete_id |-> es[i].athlete_id,
                 strength |-> IF RLeq(total, Zero) THEN Rat(1, Len(es))
                              ELSE RDivide(strengths[i], total)]]
    IN  normalized(RSum(strengths))

\* v1 simulate_competition
v1_simulate_competition(probabilities, ws) ==
    IF Len(probabilities) < 3 THEN Padded(probabilities)
    ELSE LET performances ==
                 [i \in 1..Len(probabilities) |->
                     Performance(IF RLeq(probabilities[i].strength, Zero)
                                 THEN StrengthFloor ELSE probabilities[i].strength, ws[i])]
             top == TopThree(performances)
         IN  [m \in 1..3 |-> Some(probabilities[top[m]].athlete_id)]

\* v2 calculate_strength and v3 calculate_base_strength
calculate_base_strength(score, scoring_type) ==
    IF scoring_type = "world_ranking"
    THEN RDivide(Rat(1000, 1), AtLeast(Rat(score, 1), One))
    ELSE AtLeast(Rat(score, 1), One)

\* the list as it is
Without_Kept(xs, idx) == xs

\* strengths[:idx] + strengths[idx + 1:]
Without(xs, idx) == [i \in 1..(Len(xs) - 1) |-> IF i < idx THEN xs[i] ELSE xs[i + 1]]

\* v2 simulate_competition: the entrants by strength (stable), then three
\* power_weighted_select; every strength is >= 1 or 1000/score > 0, so each
\* select can return any of the remaining: picks are the three indices
v2_simulate_competition(es, scoring_type, picks) ==
    IF Len(es) < 3 THEN Padded(es)
    ELSE LET s == [i \in 1..Len(es) |-> calculate_base_strength(es[i].score, scoring_type)]
             sorted == [p \in 1..Len(es) |-> es[CHOOSE i \in 1..Len(es) : PlaceOf(s, i) = p]]
             contenders == [p \in 1..(IF Len(es) < TOP_N_CONTENDERS THEN Len(es)
                                       ELSE TOP_N_CONTENDERS) |-> sorted[p]]
             after_gold == Without(contenders, picks[1])
             after_silver == Without(after_gold, picks[2])
         IN  <<Some(contenders[picks[1]].athlete_id),
               Some(after_gold[picks[2]].athlete_id),
               Some(after_silver[picks[3]].athlete_id)>>

\* the indices the three power_weighted_select of n entrants can return
Picks(n) ==
    LET c == IF n < TOP_N_CONTENDERS THEN n ELSE TOP_N_CONTENDERS
    IN  (1..c) \X (1..(c - 1)) \X (1..(c - 2))

\* athlete_multipliers.get(athlete_id, 1.0)
multiplier_of(multipliers, athlete_id) ==
    IF athlete_id \in DOMAIN multipliers
    THEN Rat(multipliers[athlete_id], 1) ELSE One

\* v3 simulate_competition
v3_simulate_competition(es, scoring_type, multipliers, ws) ==
    IF Len(es) < 3 THEN Padded(es)
    ELSE LET performances ==
                 [i \in 1..Len(es) |->
                     LET effective_strength ==
                             RMul(calculate_base_strength(es[i].score, scoring_type),
                                  multiplier_of(multipliers, es[i].athlete_id))
                     IN  Performance(IF RLeq(effective_strength, Zero)
                                     THEN StrengthFloor ELSE effective_strength, ws[i])]
             top == TopThree(performances)
         IN  [m \in 1..3 |-> Some(es[top[m]].athlete_id)]

\* only the athlete ids of the first entry's competition
athlete_ids_of_FirstCompetition(es) ==
    {es[i].athlete_id : i \in {j \in 1..Len(es) : es[j].competition_id = es[1].competition_id}}

\* set(e["athlete_id"] for e in entries)
athlete_ids_of(es) == {es[i].athlete_id : i \in 1..Len(es)}

\* the entrants simulate_competition of v3 multiplies, each with the
\* multiplier it applies and whether that is the default of .get()
applied_multipliers(comp_id, es, multipliers) ==
    IF Len(es) < 3 THEN {}
    ELSE {[competition_id |-> comp_id,
           athlete_id |-> es[i].athlete_id,
           multiplier |-> multiplier_of(multipliers, es[i].athlete_id),
           defaulted |-> es[i].athlete_id \notin DOMAIN multipliers] :
             i \in 1..Len(es)}

\* the accumulators the award loop writes
Accumulators(sm, cm, cr) == [sim_medals |-> sm, country_medals |-> cm, comp_results |-> cr]

\* the winners are not counted
predict_award_Skipped(acc, comp_id, winners) == acc

\* predict.py: if len(winners) >= 3, the three awards
predict_award(acc, comp_id, winners) ==
    LET RECURSIVE awarded(_)
        awarded(m) ==
            IF m = 0 THEN acc
            ELSE LET a == awarded(m - 1)
                 IN  Accumulators(
                         Incremented(a.sim_medals, winners[m].country, MedalTypes[m]),
                         a.country_medals,
                         Incremented2(a.comp_results, comp_id, winners[m].id, MedalTypes[m]))
    IN  IF Len(winners) >= 3 THEN awarded(3) ELSE acc

\* v1 and v2: for each medal, if athlete_id and athlete_id in athletes
v1_award(acc, comp_id, winners, aths) ==
    LET RECURSIVE awarded(_)
        awarded(m) ==
            IF m = 0 THEN acc
            ELSE LET a == awarded(m - 1)
                 IN  IF winners[m] # None /\ winners[m][1] \in DOMAIN aths
                     THEN LET country == aths[winners[m][1]].country
                          IN  Accumulators(
                                  Incremented(a.sim_medals, country, MedalTypes[m]),
                                  Incremented(a.country_medals, country, MedalTypes[m]),
                                  Incremented2(a.comp_results, comp_id, winners[m][1],
                                               MedalTypes[m]))
                     ELSE a
    IN  awarded(3)

\* v3: for each medal, if winner_id; the country of an unknown athlete is "???"
v3_award(acc, comp_id, winners, aths) ==
    LET RECURSIVE awarded(_)
        awarded(m) ==
            IF m = 0 THEN acc
            ELSE LET a == awarded(m - 1)
                 IN  IF winners[m] # None
                     THEN LET country == IF winners[m][1] \in DOMAIN aths
                                         THEN aths[winners[m][1]].country ELSE "???"
                          IN  Accumulators(
                                  Incremented(a.sim_medals, country, MedalTypes[m]),
                                  a.country_medals,
                                  Incremented2(a.comp_results, comp_id, winners[m][1],
                                               MedalTypes[m]))
                     ELSE a
    IN  awarded(3)

\* the trial's counts in place of the sums
Accumulated_Overwritten(cm, sm) == sm

\* country_medals[country][medal_type] += count for the items of sim_medals
Accumulated(cm, sm) ==
    [c \in DOMAIN cm \cup DOMAIN sm |->
        LET old == IF c \in DOMAIN cm THEN cm[c] ELSE NoMedals
        IN  IF c \in DOMAIN sm
            THEN [gold |-> old.gold + sm[c].gold,
                  silver |-> old.silver + sm[c].silver,
                  bronze |-> old.bronze + sm[c].bronze]
            ELSE old]

\* predict.py: every count /= NUM_SIMULATIONS, then total = gold + silver + bronze
predict_averages(cm) ==
    [c \in DOMAIN cm |->
        LET gold == Rat(cm[c].gold, NUM_SIMULATIONS)
            silver == Rat(cm[c].silver, NUM_SIMULATIONS)
            bronze == Rat(cm[c].bronze, NUM_SIMULATIONS)
        IN  [gold |-> gold, silver |-> silver, bronze |-> bronze,
             total |-> RAdd(RAdd(gold, silver), bronze)]]

\* v1, v2, v3: results[country], total = (gold + silver + bronze) / NUM_SIMULATIONS
v1_averages(cm) ==
    [c \in DOMAIN cm |->
        [gold |-> Rat(cm[c].gold, NUM_SIMULATIONS),
         silver |-> Rat(cm[c].silver, NUM_SIMULATIONS),
         bronze |-> Rat(cm[c].bronze, NUM_SIMULATIONS),
         total |-> Rat(cm[c].gold + cm[c].silver + cm[c].bronze, NUM_SIMULATIONS)]]

----------------------------------------------------------------------------
\* src/models.py: CompetitionResult, and the rows output_results writes.

\* the elements of a set of ids as a list, ascending
RECURSIVE Ascending(_)
Ascending(ids) ==
    IF ids = {} THEN <<>>
    ELSE LET least == CHOOSE x \in ids : \A y \in ids : x <= y
         IN  <<least>> \o Ascending(ids \ {least})

\* AthleteCompetitionResult: the probabilities of one athlete in one competition
AthleteCompetitionResult(athlete_id, country, gold_prob, silver_prob, bronze_prob) ==
    [athlete_id |-> athlete_id, athlete_name |-> athlete_id, country |-> country,
     gold_prob |-> gold_prob, silver_prob |-> silver_prob, bronze_prob |-> bronze_prob]

\* output_results: one row per athlete of comp_results[comp_id], each count
\* over NUM_SIMULATIONS; an athlete unknown to the table has country "UNK"
competition_rows(cr, comp_id, aths) ==
    LET ids == Ascending(DOMAIN cr[comp_id])
    IN  [i \in 1..Len(ids) |->
            AthleteCompetitionResult(
                ids[i],
                IF ids[i] \in DOMAIN aths THEN aths[ids[i]].country ELSE "UNK",
                Rat(cr[comp_id][ids[i]].gold, NUM_SIMULATIONS),
                Rat(cr[comp_id][ids[i]].silver, NUM_SIMULATIONS),
                Rat(cr[comp_id][ids[i]].bronze, NUM_SIMULATIONS))]

\* one more result of a country replaces its sums
Added_Overwritten(entry, result) ==
    [expected_gold |-> result.gold_prob,
     expected_silver |-> result.silver_prob,
     expected_bronze |-> result.bronze_prob,
     athletes |-> Append(entry.athletes,
                         [name |-> result.athlete_name, gold_prob |-> result.gold_prob])]

\* country_medals[country] after one more result of that country
Added(entry, result) ==
    [expected_gold |-> RAdd(entry.expected_gold, result.gold_prob),
     expected_silver |-> RAdd(entry.expected_silver, result.silver_prob),
     expected_bronze |-> RAdd(entry.expected_bronze, result.bronze_prob),
     athletes |-> Append(entry.athletes,
                         [name |-> result.athlete_name, gold_prob |-> result.gold_prob])]

\* CompetitionResult.get_country_breakdown over self.athlete_results
RECURSIVE BreakdownTo(_, _)
BreakdownTo(rs, k) ==
    IF k = 0 THEN [c \in {} |-> <<>>]
    ELSE LET country_medals_ == BreakdownTo(rs, k - 1)
             country == rs[k].country
             fresh == [expected_gold |-> Zero, expected_silver |-> Zero,
                       expected_bronze |-> Zero, athletes |-> <<>>]
         IN  [c \in DOMAIN country_medals_ \cup {country} |->
                 IF c = country
                 THEN Added(IF country \in DOMAIN country_medals_
                            THEN country_medals_[country] ELSE fresh, rs[k])
                 ELSE country_medals_[c]]

get_country_breakdown(rs) == BreakdownTo(rs, Len(rs))

----------------------------------------------------------------------------
\* calculate_confidence_intervals of predict.py, v1, v2 and v3.

\* data as it is
sorted_data_Unsorted(data) == data

\* sorted(data)
sorted_data(data) ==
    LET position(i) == 1 + Cardinality({j \in 1..Len(data) :
                                        \/ data[j] < data[i]
                                        \/ data[j] = data[i] /\ j < i})
    IN  [p \in 1..Len(data) |-> data[CHOOSE i \in 1..Len(data) : position(i) = p]]

\* sorted_data[idx], idx counted from 0
item(xs, idx) ==
    IF idx \in 0..(Len(xs) - 1)
    THEN [raised |-> "none", value |-> Rat(xs[idx + 1], 1)]
    ELSE [raised |-> "IndexError", value |-> Zero]

\* predict.py percentile(data, p), p a fraction: idx = int(len * p)
predict_percentile(data, p) ==
    LET s == sorted_data(data)
        idx == (Len(s) * p.num) \div p.den
    IN  item(s, IF idx < Len(s) - 1 THEN idx ELSE Len(s) - 1)

\* v1 and v2 percentile(data, p), p in percent: idx = int(len * p / 100)
v1_percentile(data, p) ==
    LET s == sorted_data(data)
        idx == (Len(s) * p.num) \div (p.den * 100)
    IN  item(s, IF idx < Len(s) - 1 THEN idx ELSE Len(s) - 1)

\* v3 percentile(data, p), p in percent: between sorted_data[f] and its successor
v3_percentile(data, p) ==
    LET s == sorted_data(data)
        k == Rat((Len(s) - 1) * p.num, p.den * 100)
        f == k.num \div k.den
        c == IF f + 1 < Len(s) THEN f + 1 ELSE f
        at_f == item(s, f)
        at_c == item(s, c)
    IN  [raised |-> IF at_f.raised # "none" THEN at_f.raised ELSE at_c.raised,
         value |-> RAdd(at_f.value,
                        RMul(RSub(at_c.value, at_f.value), RSub(k, Rat(f, 1))))]

\* the counts of one medal of a country, a trial without the country being 0;
\* "total" is g + s + b
medal_counts_of(sims, country, medal_type) ==
    [i \in 1..Len(sims) |->
        IF country \notin DOMAIN sims[i] THEN 0
        ELSE IF medal_type = "total"
             THEN sims[i][country].gold + sims[i][country].silver + sims[i][country].bronze
             ELSE sims[i][country][medal_type]]

\* calculate_confidence_intervals(simulation_results, country) of a variant:
\* medal type -> (lower, upper); predict.py has no "total"
calculate_confidence_intervals(impl, sims, country) ==
    LET percentile(data, upper) ==
            CASE impl = "predict" ->
                     predict_percentile(data, IF upper THEN Rat(39, 40) ELSE Rat(1, 40))
              [] impl \in {"v1", "v2"} ->
                     v1_percentile(data, IF upper THEN Rat(195, 2) ELSE Rat(5, 2))
              [] impl = "v3" ->
                     v3_percentile(data, IF upper THEN Rat(195, 2) ELSE Rat(5, 2))
        keys == IF impl = "predict" THEN {"gold", "silver", "bronze"}
                ELSE {"gold", "silver", "bronze", "total"}
        pairs == [medal_type \in keys |->
                     [lower |-> percentile(medal_counts_of(sims, country, medal_type), FALSE),
                      upper |-> percentile(medal_counts_of(sims, country, medal_type), TRUE)]]
    IN  [raised |-> IF \A medal_type \in keys :
                          /\ pairs[medal_type].lower.raised = "none"
                          /\ pairs[medal_type].upper.raised = "none"
                    THEN "none" ELSE "IndexError",
         pairs |-> [medal_type \in keys |->
                       [lower |-> pairs[medal_type].lower.value,
                        upper |-> pairs[medal_type].upper.value]]]

----------------------------------------------------------------------------
\* The state machine: a caller builds a field of athletes and a model, and
\* calls methods.

InitModel(fields, powers) ==
    /\ \E data \in fields : athletes = create_athletes_from_scores(data)
    /\ strength_power \in powers
    /\ called = "none"
    /\ raised = "none"
    /\ predictions = <<>>
    /\ validation = <<>>

InitSimulator(configs) ==
    /\ config \in configs
    /\ sim_pc = "idle"
    /\ simulators = 1
    /\ sim_calls = 0
    /\ rng = MonteCarloSimulator(Unseeded, config)
    /\ tape = <<>>
    /\ started = Unseeded
    /\ runs = <<>>
    /\ exact_by_id = <<>>
    /\ medal_counts = <<>>
    /\ trials = 0
    /\ draws = 0
    /\ results = <<>>

\* the country code of the athlete with this id
CountryOf(a) == IF a <= 2 THEN "NOR" ELSE "SWE"

\* athletes: id -> athlete, of the athletes with these ids
AthleteTable(known) == [a \in known |-> [id |-> a, country |-> CountryOf(a)]]

\* competitions: id -> competition, all of one sport's scoring_type
CompetitionTable(known, scoring_type) ==
    [c \in known |-> [id |-> c, scoring_type |-> scoring_type]]

\* entries: for each competition c in order, the athletes 1..sizes[c] with
\* their scores
RECURSIVE BatchEntries(_, _, _)
BatchEntries(sizes, scores, c) ==
    IF c = 0 THEN <<>>
    ELSE BatchEntries(sizes, scores, c - 1)
             \o [a \in 1..sizes[c] |-> Entry(a, c, scores[a])]

\* the data a run loads: the three tables
Batch(aths, comps, es) == [athlete_table |-> aths, competitions |-> comps, entries |-> es]

NoBatch == Batch(AthleteTable({}), CompetitionTable({}, "wc_points"), <<>>)

InitBatch(variants, batches) ==
    /\ variant \in variants
    /\ \E b \in batches :
        /\ athlete_table = b.athlete_table
        /\ competitions = b.competitions
        /\ entries = b.entries
    /\ run_pc = "idle"
    /\ comp_entries = <<>>
    /\ all_athlete_ids = {}
    /\ sim_idx = 0
    /\ comp_idx = 0
    /\ athlete_multipliers = <<>>
    /\ sampled = 0
    /\ applied = {}
    /\ sim_medals = EmptyDict
    /\ country_medals = EmptyDict
    /\ comp_results = EmptyDict
    /\ simulation_results = <<>>
    /\ country_results = EmptyDict
    /\ athlete_results = <<>>
    /\ breakdown = <<>>
    /\ ci_args = <<>>
    /\ intervals = <<>>
    /\ convergence = <<>>
    /\ warnings = {}
    /\ calls_on = [s \in 1..MaxSimulators |-> 0]
    /\ on = 0
    /\ database = [competitions |-> CompetitionTable({}, "wc_points"),
                   athletes |-> AthleteTable({}), excluded_athletes |-> {},
                   entries |-> <<>>, imported |-> {}]
    /\ loaded = FALSE

\* the exact engine alone, under the default SimulationConfig's extra noise
Init ==
    /\ InitModel(Fields, Powers)
    /\ InitSimulator({SimulationConfig(MaxSimulations, 0, None)})
    /\ InitBatch({"predict"}, {NoBatch})

\* model.calculate_strengths(athletes)
CalculateStrengths ==
    /\ sim_pc = "idle"
    /\ \E r \in {calculate_strengths(athletes, strength_power)} :
        /\ athletes' = r.athletes
        /\ raised' = r.raised
        /\ called' = "calculate_strengths"
        /\ UNCHANGED <<strength_power, predictions, validation, sim_vars, batch_vars, report_vars>>

\* predictions = model.predict(athletes)
Predict ==
    /\ sim_pc = "idle"
    /\ \E residue \in ResiduesAt(athletes, strength_power) :
        \E r \in {predict(athletes, strength_power, residue)} :
            /\ athletes' = r.athletes
            /\ raised' = r.raised
            /\ predictions' = r.predictions
            /\ called' = "predict"
            /\ UNCHANGED <<strength_power, validation, sim_vars, batch_vars, report_vars>>

\* validation = model.validate_predictions(predictions)
ValidatePredictions ==
    /\ sim_pc = "idle"
    /\ called = "predict"
    /\ raised = "none"
    /\ validation' = <<validate_predictions(predictions)>>
    /\ called' = "validate_predictions"
    /\ UNCHANGED <<athletes, strength_power, raised, predictions, sim_vars, batch_vars, report_vars>>

Next == CalculateStrengths \/ Predict \/ ValidatePredictions

Spec == Init /\ [][Next]_vars

\* results = simulator.simulate_competition(athletes), up to the trial loop:
\* the guard, calculate_strengths, predict and the empty medal_counts
SimulateCompetition ==
    /\ sim_pc = "idle"
    /\ sim_calls < MaxSimCalls
    /\ sim_calls' = sim_calls + 1
    /\ called' = "simulate_competition"
    /\ started' = rng
    /\ UNCHANGED <<strength_power, predictions, validation, config, simulators,
                   rng, tape, draws, batch_vars, report_vars>>
    /\ IF TooFew(athletes)
       THEN /\ results' = <<>>
            /\ runs' = Append(runs, [generator |-> rng, call |-> sim_calls + 1,
                                     results |-> <<>>])
            /\ raised' = "none"
            /\ UNCHANGED <<athletes, sim_pc, exact_by_id, medal_counts, trials>>
       ELSE \E residue \in ResiduesAt(athletes, strength_power) :
            \E r \in {predict(calculate_strengths(athletes, strength_power).athletes,
                              strength_power, residue)} :
                /\ athletes' = r.athletes
                /\ raised' = r.raised
                /\ UNCHANGED runs
                /\ IF r.raised # "none"
                   THEN UNCHANGED <<sim_pc, exact_by_id, medal_counts, trials, results>>
                   ELSE /\ sim_pc' = "running"
                        /\ exact_by_id' = r.predictions
                        /\ medal_counts' = [i \in 1..Len(athletes) |->
                                               [gold |-> 0, silver |-> 0, bronze |-> 0]]
                        /\ trials' = 0
                        /\ UNCHANGED results

\* one pass of the trial loop: simulate_once and the three += 1
SimulateOnce ==
    /\ sim_pc = "running"
    /\ trials < config.num_simulations
    /\ \E ds \in DrawsFrom(rng, tape, Len(athletes), config.extra_noise_scale) :
        \E r \in {simulate_once(athletes, ds)} :
            /\ draws' = draws + generator_calls(ds, config.extra_noise_scale)
            /\ rng' = [rng EXCEPT !.pos = @ + Len(ds),
                                  !.calls = @ + generator_calls(ds, config.extra_noise_scale)]
            /\ tape' = Served(rng, tape, ds)
            /\ trials' = trials + 1
            /\ raised' = r.raised
            /\ IF r.raised # "none"
               THEN sim_pc' = "idle" /\ UNCHANGED medal_counts
               ELSE /\ medal_counts' = award(medal_counts, r.medals)
                    /\ UNCHANGED sim_pc
    /\ UNCHANGED <<athletes, strength_power, called, predictions, validation,
                   config, simulators, sim_calls, started, runs, exact_by_id, results,
                   batch_vars, report_vars>>

\* the end of simulate_competition: the results are built and returned
SimulateCompetitionReturn ==
    /\ sim_pc = "running"
    /\ trials = config.num_simulations
    /\ sim_pc' = "idle"
    /\ UNCHANGED started
    /\ IF config.num_simulations = 0
       THEN raised' = "ZeroDivisionError" /\ UNCHANGED <<results, runs>>
       ELSE \E rs \in {[i \in 1..Len(athletes) |->
                           SimulatedResult(athletes[i], exact_by_id[i], medal_counts[i],
                                           config.num_simulations)]} :
                /\ raised' = "none"
                /\ results' = rs
                /\ runs' = Append(runs, [generator |-> started, call |-> sim_calls,
                                         results |-> rs])
    /\ UNCHANGED <<athletes, strength_power, called, predictions, validation,
                   config, simulators, sim_calls, rng, tape, exact_by_id, medal_counts,
                   trials, draws, batch_vars, report_vars>>

SimFields == UNION {[1..n -> 0..SimMaxScore] : n \in 0..SimMaxAthletes}

SimConfigs == {SimulationConfig(n, s, None) : n \in 0..MaxSimulations, s \in 0..1}

\* the simulator over a model of the default strength_power
SimInit ==
    /\ InitModel(SimFields, {DefaultPower})
    /\ InitSimulator(SimConfigs)
    /\ InitBatch({"predict"}, {NoBatch})

SimNext == Predict \/ SimulateCompetition \/ SimulateOnce \/ SimulateCompetitionReturn

SimSpec == SimInit /\ [][SimNext]_vars

\* simulator = MonteCarloSimulator(model, config), once more
NewSimulator ==
    /\ sim_pc = "idle"
    /\ simulators < MaxSimulators
    /\ simulators' = simulators + 1
    /\ sim_calls' = 0
    /\ rng' = MonteCarloSimulator(rng, config)
    /\ called' = "MonteCarloSimulator"
    /\ raised' = "none"
    /\ UNCHANGED <<athletes, strength_power, predictions, validation, config, sim_pc,
                   tape, started, runs, exact_by_id, medal_counts, trials, draws, results,
                   batch_vars, report_vars>>

\* seeded configurations: up to MaxSimulations trials without extra noise,
\* half as many with it
SeededConfigs ==
    {SimulationConfig(c[1], c[2], <<c[3]>>) :
        c \in {x \in (0..MaxSimulations) \X (0..1) \X (1..MaxSeed) :
                  x[1] * (1 + x[2]) <= MaxSimulations}}

\* fields listed from the highest score down
SeededFields == {f \in SimFields : \A i \in 1..Len(f) : \A j \in i..Len(f) : f[i] >= f[j]}

\* seeded simulators, built one after the other on the same field
SeededInit ==
    /\ InitModel(SeededFields, {DefaultPower})
    /\ InitSimulator(SeededConfigs)
    /\ InitBatch({"predict"}, {NoBatch})

SeededNext ==
    NewSimulator \/ SimulateCompetition \/ SimulateOnce \/ SimulateCompetitionReturn

SeededSpec == SeededInit /\ [][SeededNext]_vars

\* results = s.simulate_competition(athletes) on any of the simulators
\* constructed so far, up to the trial loop; all of them draw from the
\* module-level generator
SimulateCompetitionOn ==
    /\ sim_pc = "idle"
    /\ \E s \in 1..simulators :
        /\ calls_on[s] < MaxSimCalls
        /\ calls_on' = [calls_on EXCEPT ![s] = @ + 1]
        /\ on' = s
        /\ sim_calls' = calls_on[s] + 1
    /\ called' = "simulate_competition"
    /\ started' = rng
    /\ UNCHANGED <<strength_power, predictions, validation, config, simulators,
                   rng, tape, draws, batch_vars, athlete_results, breakdown, ci_args,
                   intervals, convergence, warnings, database, loaded>>
    /\ IF TooFew(athletes)
       THEN /\ results' = <<>>
            /\ runs' = Append(runs, [generator |-> rng, call |-> sim_calls',
                                     results |-> <<>>])
            /\ raised' = "none"
            /\ UNCHANGED <<athletes, sim_pc, exact_by_id, medal_counts, trials>>
       ELSE \E residue \in ResiduesAt(athletes, strength_power) :
            \E r \in {predict(calculate_strengths(athletes, strength_power).athletes,
                              strength_power, residue)} :
                /\ athletes' = r.athletes
                /\ raised' = r.raised
                /\ UNCHANGED runs
                /\ IF r.raised # "none"
                   THEN UNCHANGED <<sim_pc, exact_by_id, medal_counts, trials, results>>
                   ELSE /\ sim_pc' = "running"
                        /\ exact_by_id' = r.predictions
                        /\ medal_counts' = [i \in 1..Len(athletes) |->
                                               [gold |-> 0, silver |-> 0, bronze |-> 0]]
                        /\ trials' = 0
                        /\ UNCHANGED results

\* seeded configurations of at most one trial, without extra noise
SharedConfigs == {SimulationConfig(n, 0, <<s>>) : n \in 0..1, s \in 1..MaxSeed}

\* seeded simulators built on the same field, each called in any order
SharedInit ==
    /\ InitModel(SeededFields, {DefaultPower})
    /\ InitSimulator(SharedConfigs)
    /\ InitBatch({"predict"}, {NoBatch})

SharedNext ==
    NewSimulator \/ SimulateCompetitionOn \/ SimulateOnce \/ SimulateCompetitionReturn

SharedSpec == SharedInit /\ [][SharedNext]_vars

\* fields of 3 entrants and more, one more than elsewhere, from the highest
\* score down
SamplerFields ==
    {f \in UNION {[1..n -> 0..SimMaxScore] : n \in 3..(SimMaxAthletes + 1)} :
        \A i \in 1..Len(f) : \A j \in i..Len(f) : f[i] >= f[j]}

\* one seeded trial, with and without extra noise
SamplerConfigs == {SimulationConfig(1, s, <<seed>>) : s \in 0..1, seed \in 1..MaxSeed}

SamplerInit ==
    /\ InitModel(SamplerFields, {DefaultPower})
    /\ InitSimulator(SamplerConfigs)
    /\ InitBatch({"predict"}, {NoBatch})

SamplerNext == SimulateCompetition \/ SimulateOnce \/ SimulateCompetitionReturn

SamplerSpec == SamplerInit /\ [][SamplerNext]_vars

\* tolerance: the default 0.02, and wider ones a caller passes
DefaultTolerance == Rat(1, 50)

Tolerances == {DefaultTolerance} \cup {Rat(1, d) : d \in 2..MaxToleranceInv}

\* validation = simulator.validate_convergence(results, tolerance) on the
\* list simulate_competition returned; one call is followed
ValidateConvergence ==
    /\ sim_pc = "idle"
    /\ called = "simulate_competition"
    /\ raised = "none"
    /\ \E tolerance \in Tolerances :
        \E r \in {validate_convergence(results, tolerance, config.num_simulations)} :
            /\ convergence' = r.summary
            /\ raised' = r.raised
    /\ called' = "validate_convergence"
    /\ UNCHANGED <<athletes, strength_power, predictions, validation, sim_vars,
                   batch_vars, athlete_results, breakdown, ci_args, intervals,
                   warnings, calls_on, on, database, loaded>>

\* fields of positive scores
ConvergenceFields == {f \in SimFields : \A i \in 1..Len(f) : f[i] > 0}

\* the test's pure Plackett-Luce configurations: extra_noise_scale = 0
ConvergenceConfigs == {SimulationConfig(n, 0, None) : n \in 1..MaxSimulations}

ConvergenceInit ==
    /\ InitModel(ConvergenceFields, {DefaultPower})
    /\ InitSimulator(ConvergenceConfigs)
    /\ InitBatch({"predict"}, {NoBatch})

ConvergenceNext ==
    SimulateCompetition \/ SimulateOnce \/ SimulateCompetitionReturn \/ ValidateConvergence

ConvergenceSpec == ConvergenceInit /\ [][ConvergenceNext]_vars

----------------------------------------------------------------------------
\* run_simulation of predict.py and of prediction/v1, v2 and v3 over the
\* loaded tables.

\* main: the tables are grouped by competition and run_simulation starts
RunSimulation ==
    /\ run_pc = "idle"
    /\ comp_entries' = IF variant = "predict"
                       THEN build_competition_entries(competitions, athlete_table, entries)
                       ELSE entries_by_comp(entries)
    /\ all_athlete_ids' = IF variant = "v3" THEN athlete_ids_of(entries) ELSE {}
    /\ sim_idx' = 0
    /\ country_medals' = EmptyDict
    /\ comp_results' = EmptyDict
    /\ simulation_results' = <<>>
    /\ run_pc' = "trial"
    /\ UNCHANGED <<model_vars, sim_vars, report_vars, variant, athlete_table, competitions, entries,
                   comp_idx, athlete_multipliers, sampled, applied, sim_medals,
                   country_results>>

\* for sim in range(NUM_SIMULATIONS): the top of a trial; v3 samples the
\* multiplier of every athlete id
StartTrial ==
    /\ run_pc = "trial"
    /\ sim_idx < NUM_SIMULATIONS
    /\ athlete_multipliers' \in IF variant = "v3"
                                THEN [all_athlete_ids -> 1..MaxMultiplier]
                                ELSE {<<>>}
    /\ sampled' = IF variant = "v3" THEN sampled + Cardinality(all_athlete_ids)
                  ELSE sampled
    /\ applied' = {}
    /\ sim_medals' = EmptyDict
    /\ comp_idx' = 1
    /\ run_pc' = "comps"
    /\ UNCHANGED <<model_vars, sim_vars, report_vars, variant, athlete_table, competitions, entries,
                   comp_entries, all_athlete_ids, sim_idx, country_medals, comp_results,
                   simulation_results, country_results>>

\* one pass of the loop over the competitions, simulate_competition being
\* handed these multipliers (v3)
Resolve(multipliers) ==
    /\ run_pc = "comps"
    /\ comp_idx <= Len(comp_entries)
    /\ LET comp_id == comp_entries[comp_idx].comp_id
           es == comp_entries[comp_idx].entries
           n == Len(es)
           scoring_type == get_scoring_type(comp_id, competitions)
           acc == Accumulators(sim_medals, country_medals, comp_results)
           Noise == IF n < 3 THEN {<<>>} ELSE GumbelDraws(n)
           after ==
               CASE variant = "predict" ->
                        IF n < 3 THEN {acc}
                        ELSE {predict_award(acc, comp_id,
                                  predict_simulate_competition(es, athlete_table, ws)) :
                                ws \in Noise}
                 [] variant = "v1" ->
                        {v1_award(acc, comp_id,
                             v1_simulate_competition(normalize_scores(es, scoring_type), ws),
                             athlete_table) : ws \in Noise}
                 [] variant = "v2" ->
                        {v1_award(acc, comp_id,
                             v2_simulate_competition(es, scoring_type, picks),
                             athlete_table) :
                           picks \in IF n < 3 THEN {<<>>} ELSE Picks(n)}
                 [] variant = "v3" ->
                        {v3_award(acc, comp_id,
                             v3_simulate_competition(es, scoring_type, multipliers, ws),
                             athlete_table) : ws \in Noise}
       IN  /\ \E a \in after :
                /\ sim_medals' = a.sim_medals
                /\ country_medals' = a.country_medals
                /\ comp_results' = a.comp_results
           /\ applied' = IF variant = "v3"
                         THEN applied \cup applied_multipliers(comp_id, es, multipliers)
                         ELSE applied
    /\ comp_idx' = comp_idx + 1
    /\ UNCHANGED <<model_vars, sim_vars, report_vars, variant, athlete_table, competitions, entries,
                   run_pc, comp_entries, all_athlete_ids, sim_idx, athlete_multipliers,
                   sampled, simulation_results, country_results>>

\* the loop's simulate_competition resamples the multipliers
ResolveCompetition_Resampled ==
    \E ms \in [all_athlete_ids -> 1..MaxMultiplier] : Resolve(ms)

ResolveCompetition == Resolve(athlete_multipliers)

\* simulation_results.append(dict(sim_medals)), and predict.py and v3
\* accumulate the trial into country_medals
EndTrial ==
    /\ run_pc = "comps"
    /\ comp_idx > Len(comp_entries)
    /\ simulation_results' = Append(simulation_results, sim_medals)
    /\ country_medals' = IF variant \in {"predict", "v3"}
                         THEN Accumulated(country_medals, sim_medals)
                         ELSE country_medals
    /\ sim_idx' = sim_idx + 1
    /\ run_pc' = "trial"
    /\ UNCHANGED <<model_vars, sim_vars, report_vars, variant, athlete_table, competitions, entries,
                   comp_entries, all_athlete_ids, comp_idx, athlete_multipliers, sampled,
                   applied, sim_medals, comp_results, country_results>>

\* after the last trial: the averages, and run_simulation returns
RunSimulationReturn ==
    /\ run_pc = "trial"
    /\ sim_idx >= NUM_SIMULATIONS
    /\ country_results' = IF variant = "predict" THEN predict_averages(country_medals)
                          ELSE v1_averages(country_medals)
    /\ run_pc' = "done"
    /\ UNCHANGED <<model_vars, sim_vars, report_vars, variant, athlete_table, competitions, entries,
                   comp_entries, all_athlete_ids, sim_idx, comp_idx, athlete_multipliers,
                   sampled, applied, sim_medals, country_medals, comp_results,
                   simulation_results>>

BatchNext ==
    RunSimulation \/ StartTrial \/ ResolveCompetition \/ EndTrial \/ RunSimulationReturn

\* no field and no simulator are at work while a batch runs
InitNoField ==
    /\ InitModel({<<>>}, {DefaultPower})
    /\ InitSimulator({SimulationConfig(MaxSimulations, 0, None)})

\* scores by athlete id, falling from BatchMaxScore to 0
FallingScores == [a \in 1..MaxEntrants |-> IF a <= BatchMaxScore THEN BatchMaxScore + 1 - a ELSE 0]

ZeroScores == [a \in 1..MaxEntrants |-> 0]

AllAthletes == AthleteTable(1..MaxEntrants)

AllCompetitions(scoring_type) == CompetitionTable(1..MaxCompetitions, scoring_type)

\* v3 on tables without a gap: every competition has 2 entrants or more,
\* the last one 3 or more
V3Batches ==
    {Batch(AllAthletes, AllCompetitions("wc_points"),
           BatchEntries(sizes, FallingScores, MaxCompetitions)) :
        sizes \in {s \in [1..MaxCompetitions -> 2..MaxEntrants] : s[MaxCompetitions] >= 3}}

V3Init == InitNoField /\ InitBatch({"v3"}, V3Batches)

V3Spec == V3Init /\ [][BatchNext]_vars

\* the athletes and competitions tables: complete; without athlete 1; without
\* the last competition (and ranked by world_ranking)
BatchTables ==
    {[athlete_table |-> AllAthletes, competitions |-> AllCompetitions("wc_points")],
     [athlete_table |-> AthleteTable(2..MaxEntrants),
      competitions |-> AllCompetitions("wc_points")],
     [athlete_table |-> AllAthletes,
      competitions |-> CompetitionTable(1..(MaxCompetitions - 1), "world_ranking")]}

\* every variant on competitions of 0..MaxEntrants entries
Batches ==
    {Batch(tables.athlete_table, tables.competitions,
           BatchEntries(sizes, scores, MaxCompetitions)) :
        tables \in BatchTables,
        sizes \in [1..MaxCompetitions -> 0..MaxEntrants],
        scores \in {FallingScores, ZeroScores}}

BatchInit == InitNoField /\ InitBatch(Variants, Batches)

BatchSpec == BatchInit /\ [][BatchNext]_vars

\* predict.py on competitions of different sizes, up to one entrant more than
\* elsewhere, with every athlete known or athlete 1 missing from the table
LargestField == MaxEntrants + 1

FieldSizeBatches ==
    {Batch(AthleteTable(known), AllCompetitions("wc_points"),
           BatchEntries(sizes, [a \in 1..LargestField |-> LargestField - a],
                        MaxCompetitions)) :
        known \in {1..LargestField, 2..LargestField},
        sizes \in [1..MaxCompetitions -> 0..LargestField]}

FieldSizeInit == InitNoField /\ InitBatch({"predict"}, FieldSizeBatches)

FieldSizeSpec == FieldSizeInit /\ [][BatchNext]_vars

\* The two samplers side by side: the simulator on a field of 3 entrants or
\* more while no batch is loaded, or v2 over a loaded batch of known athletes
\* while the simulator has no field; the simulator runs one trial, the first
\* competition is of any size, the others of fewer than 3 entries.
WinnerFields == {f \in SamplerFields : \A i \in 1..Len(f) : f[i] > 0}

WinnerConfigs == {SimulationConfig(1, 0, None)}

WinnerBatches ==
    {Batch(AthleteTable(1..LargestField), AllCompetitions("wc_points"),
           BatchEntries(sizes, [a \in 1..LargestField |-> LargestField - a],
                        MaxCompetitions)) :
        sizes \in {s \in [1..MaxCompetitions -> 0..LargestField] :
                      \A c \in 2..MaxCompetitions : s[c] < 3}}

WinnerInit ==
    /\ InitSimulator(WinnerConfigs)
    /\ \/ InitModel(WinnerFields, {DefaultPower}) /\ InitBatch({"v2"}, {NoBatch})
       \/ InitModel({<<>>}, {DefaultPower}) /\ InitBatch({"v2"}, WinnerBatches)

WinnerNext ==
    \/ SimulateCompetition \/ SimulateOnce \/ SimulateCompetitionReturn
    \/ BatchNext

WinnerSpec == WinnerInit /\ [][WinnerNext]_vars

----------------------------------------------------------------------------
\* The database that the pipelines fill and predict.py loads.

\* a row of the table entries
Row(athlete_id, competition_id, score, source) ==
    [athlete_id |-> athlete_id, competition_id |-> competition_id, score |-> score,
     source |-> source]

\* INSERT OR REPLACE of the rows of a table keyed by id
Replaced(table, rows) ==
    [k \in DOMAIN table \cup DOMAIN rows |-> IF k \in DOMAIN rows THEN rows[k] ELSE table[k]]

\* INSERT OR IGNORE of the rows of a table keyed by id
Ignored(table, rows) ==
    [k \in DOMAIN table \cup DOMAIN rows |-> IF k \in DOMAIN table THEN table[k] ELSE rows[k]]

\* import_legacy_data: the competitions and athletes of the JSON files, the
\* athletes among them that EXCLUDED_ATHLETES lists by name and country, and
\* the entries of the athletes that are not in excluded_athletes
import_legacy_data(db, legacy) ==
    LET excluded_ids == db.excluded_athletes \cup legacy.listed
        kept == SelectSeq(db.entries, LAMBDA r : r.source # "manual")
        imported == SelectSeq(legacy.entries, LAMBDA e : e.athlete_id \notin excluded_ids)
    IN  [competitions |-> Replaced(db.competitions, legacy.competitions),
         athletes |-> Replaced(db.athletes, legacy.athletes),
         excluded_athletes |-> excluded_ids,
         entries |-> kept \o [i \in 1..Len(imported) |->
                                 Row(imported[i].athlete_id, imported[i].competition_id,
                                     imported[i].score, "manual")],
         imported |-> db.imported \cup {"manual"}]

\* the competitions that the cross-country pipeline writes entries of
CrossCountryCompetitions == {1}

\* import_fis_cross_country_data: the athletes of the standings, and an entry
\* of each in the competitions of the discipline, in place of the manual ones
import_fis_cross_country_data(db, standings) ==
    LET kept == SelectSeq(db.entries,
                          LAMBDA r : /\ r.source # "fis_xc"
                                     /\ ~(r.source = "manual"
                                            /\ r.competition_id \in CrossCountryCompetitions))
        comps == Ascending(CrossCountryCompetitions)
        RECURSIVE inserted(_)
        inserted(k) ==
            IF k = 0 THEN <<>>
            ELSE inserted(k - 1)
                     \o [c \in 1..Len(comps) |->
                            Row(standings[k].athlete_id, comps[c], standings[k].points,
                                "fis_xc")]
    IN  [competitions |-> db.competitions,
         athletes |-> Ignored(db.athletes,
                              AthleteTable({standings[k].athlete_id : k \in 1..Len(standings)})),
         excluded_athletes |-> db.excluded_athletes,
         entries |-> kept \o inserted(Len(standings)),
         imported |-> db.imported \cup {"fis_xc"}]

\* every athlete of the table, the excluded ones too
load_data_from_db_AllAthletes(db) ==
    Batch(db.athletes, db.competitions,
          [i \in 1..Len(db.entries) |->
              Entry(db.entries[i].athlete_id, db.entries[i].competition_id,
                    db.entries[i].score)])

\* load_data_from_db: the competitions, the athletes without a row in
\* excluded_athletes, and the entries of these athletes
load_data_from_db(db) ==
    LET loaded_athletes ==
            [a \in DOMAIN db.athletes \ db.excluded_athletes |-> db.athletes[a]]
        rows == SelectSeq(db.entries, LAMBDA r : r.athlete_id \in DOMAIN loaded_athletes)
    IN  Batch(loaded_athletes, db.competitions,
              [i \in 1..Len(rows) |->
                  Entry(rows[i].athlete_id, rows[i].competition_id, rows[i].score)])

\* the JSON files of the legacy import: every competition, LargestField
\* athletes of whom at most two are listed in EXCLUDED_ATHLETES, and for each
\* competition no entry or an entry of every athlete
LegacyData ==
    {[competitions |-> AllCompetitions("wc_points"),
      athletes |-> AthleteTable(1..LargestField),
      listed |-> listed,
      entries |-> BatchEntries(sizes, [a \in 1..LargestField |-> LargestField - a],
                               MaxCompetitions)] :
        listed \in {s \in SUBSET (1..LargestField) : Cardinality(s) <= 2},
        sizes \in [1..MaxCompetitions -> {0, LargestField}]}

\* the standings fetched: none, or the first athletes by rank with their points
Standings ==
    {[k \in 1..n |-> [athlete_id |-> k, country |-> CountryOf(k),
                      points |-> LargestField + 1 - k]] : n \in {0, MaxEntrants, LargestField}}

\* run_pipeline.py: import_legacy_data(), the first of the pipelines
ImportLegacyData ==
    /\ ~loaded
    /\ run_pc = "idle"
    /\ database.imported = {}
    /\ \E legacy \in LegacyData : database' = import_legacy_data(database, legacy)
    /\ UNCHANGED <<model_vars, sim_vars, batch_vars, athlete_results, breakdown, ci_args,
                   intervals, convergence, warnings, calls_on, on, loaded>>

\* run_pipeline.py: import_fis_cross_country_data()
ImportFisCrossCountryData ==
    /\ ~loaded
    /\ run_pc = "idle"
    /\ "fis_xc" \notin database.imported
    /\ \E standings \in Standings :
           database' = import_fis_cross_country_data(database, standings)
    /\ UNCHANGED <<model_vars, sim_vars, batch_vars, athlete_results, breakdown, ci_args,
                   intervals, convergence, warnings, calls_on, on, loaded>>

\* predict.py main: competitions, athletes, entries = load_data_from_db()
LoadDataFromDb ==
    /\ ~loaded
    /\ run_pc = "idle"
    /\ \E b \in {load_data_from_db(database)} :
        /\ athlete_table' = b.athlete_table
        /\ competitions' = b.competitions
        /\ entries' = b.entries
    /\ loaded' = TRUE
    /\ UNCHANGED <<model_vars, sim_vars, variant, run_pc, comp_entries, all_athlete_ids,
                   sim_idx, comp_idx, athlete_multipliers, sampled, applied, sim_medals,
                   country_medals, comp_results, simulation_results, country_results,
                   athlete_results, breakdown, ci_args, intervals, convergence, warnings,
                   calls_on, on, database>>

ExclusionInit == InitNoField /\ InitBatch({"predict"}, {NoBatch})

ExclusionNext ==
    ImportLegacyData \/ ImportFisCrossCountryData \/ LoadDataFromDb \/ BatchNext

ExclusionSpec == ExclusionInit /\ [][ExclusionNext]_vars

\* result.get_country_breakdown() on the CompetitionResult of one competition
\* of a finished run, its athlete_results being the rows of output_results
GetCountryBreakdown ==
    /\ run_pc = "done"
    /\ \E comp_id \in DOMAIN comp_results :
        \E rs \in {competition_rows(comp_results, comp_id, athlete_table)} :
            /\ athlete_results' = rs
            /\ breakdown' = get_country_breakdown(rs)
    /\ UNCHANGED <<model_vars, sim_vars, batch_vars, ci_args, intervals, convergence, warnings,
                 calls_on, on, database, loaded>>

\* predict.py on complete tables, then the breakdown of a competition
AggregationBatches ==
    {Batch(AllAthletes, AllCompetitions("wc_points"),
           BatchEntries(sizes, scores, MaxCompetitions)) :
        sizes \in [1..MaxCompetitions -> 0..MaxEntrants],
        scores \in {FallingScores, ZeroScores}}

AggregationInit == InitNoField /\ InitBatch({"predict"}, AggregationBatches)

AggregationNext == BatchNext \/ GetCountryBreakdown

AggregationSpec == AggregationInit /\ [][AggregationNext]_vars

\* dict(sim_medals) of a trial: no country, or one country with its medals
TrialRecords ==
    {EmptyDict} \cup
    {[c \in {"NOR"} |-> [gold |-> m[1], silver |-> m[2], bronze |-> m[3]]] :
        m \in (0..MaxCount) \X (0..1) \X (0..1)}

\* the non-empty lists of at most MaxRecords records
RecordLists == UNION {[1..n -> TrialRecords] : n \in 1..MaxRecords}

\* calculate_confidence_intervals(simulation_results, country) of any
\* variant; one call is followed
CalculateConfidenceIntervals ==
    /\ ci_args = <<>>
    /\ \E impl \in Variants : \E sims \in RecordLists : \E country \in {"NOR", "SWE"} :
        /\ ci_args' = [impl |-> impl, simulation_results |-> sims, country |-> country]
        /\ intervals' = calculate_confidence_intervals(impl, sims, country)
    /\ UNCHANGED <<model_vars, sim_vars, batch_vars, athlete_results, breakdown, convergence, warnings,
                 calls_on, on, database, loaded>>

IntervalInit == InitNoField /\ InitBatch({"predict"}, {NoBatch})

IntervalNext == CalculateConfidenceIntervals

IntervalSpec == IntervalInit /\ [][IntervalNext]_vars

----------------------------------------------------------------------------
\* Properties of the exact engine.

N == Len(athletes)

ScoreOf(i) == athletes[i].score

\* predict ran last on a field of at least 3 entrants
PredictCalled == called = "predict" /\ N >= 3

\* ... and returned its list
PredictReturned == PredictCalled /\ raised = "none"

NonNegativeScores == \A i \in 1..N : ScoreOf(i) >= 0

PositiveScores == \A i \in 1..N : ScoreOf(i) > 0

PositiveStrengths == \A i \in 1..N : athletes[i].strength.num > 0

MedalProb(p) == RAdd(RAdd(p.gold_prob, p.silver_prob), p.bronze_prob)

\* C1: for every field of n >= 3 entrants with nonnegative scores and max
\* score > 0, predict returns one prediction per entrant, and the gold, the
\* silver and the bronze probabilities each sum to 1 within 1e-3, so that
\* validate_predictions reports all_valid.
C1_SumsToOne ==
    (PredictCalled /\ NonNegativeScores /\ max_score_of(athletes) > 0)
        => /\ raised = "none"
           /\ Len(predictions) = N
           /\ validate_predictions(predictions).all_valid

\* C2: on a field of n >= 3 entrants with positive strengths predict returns,
\* for every entrant, gold + silver + bronze <= 1 + 1e-3 and each of the
\* three probabilities >= 0.
C2_MedalProbabilities ==
    (PredictCalled /\ PositiveStrengths)
        => /\ raised = "none"
           /\ Len(predictions) = N
           /\ \A i \in 1..N :
                /\ RLeq(MedalProb(predictions[i]), RAdd(One, Tolerance))
                /\ RLeq(Zero, predictions[i].gold_prob)
                /\ RLeq(Zero, predictions[i].silver_prob)
                /\ RLeq(Zero, predictions[i].bronze_prob)

\* predict returned on a field of 4 entrants with positive strengths, one of
\* them with a medal probability below 1
C2_Witness ==
    /\ PredictReturned /\ PositiveStrengths /\ N = 4
    /\ \E i \in 1..N : RLess(MedalProb(predictions[i]), One)
    /\ \E i \in 1..N : RLess(Zero, predictions[i].bronze_prob)

\* The reference Plackett-Luce ranking: entrants are drawn one after another,
\* each time proportionally to strength among those not yet drawn.
PLDraw(strengths, drawn, next) ==
    LET RECURSIVE left(_)
        left(k) == IF k = 0 THEN Zero
                   ELSE IF k \in drawn THEN left(k - 1)
                   ELSE RAdd(left(k - 1), strengths[k])
    IN  RDivide(strengths[next], left(Len(strengths)))

\* the probability that the first three drawn are t[1], t[2], t[3]
PLTriple(strengths, t) ==
    RMul(RMul(PLDraw(strengths, {}, t[1]), PLDraw(strengths, {t[1]}, t[2])),
         PLDraw(strengths, {t[1], t[2]}, t[3]))

\* the probability that entrant i is drawn at position pos (1, 2 or 3)
PLMarginal(strengths, i, pos) ==
    LET n == Len(strengths)
        triples == {t \in (1..n) \X (1..n) \X (1..n) :
                       t[1] # t[2] /\ t[1] # t[3] /\ t[2] # t[3] /\ t[pos] = i}
        RECURSIVE total(_)
        total(T) == IF T = {} THEN Zero
                    ELSE LET t == CHOOSE x \in T : TRUE
                         IN  RAdd(PLTriple(strengths, t), total(T \ {t}))
    IN  total(triples)

\* C3: on a field of n >= 3 positive strengths the gold, silver and bronze
\* probabilities predict returns for entrant i are the reference
\* Plackett-Luce marginals of i at the first, second and third position.
C3_PlackettLuceMarginals ==
    (PredictCalled /\ PositiveStrengths)
        => /\ raised = "none"
           /\ \A i \in 1..N :
                LET strengths == [k \in 1..N |-> athletes[k].strength]
                IN  /\ predictions[i].gold_prob = PLMarginal(strengths, i, 1)
                    /\ predictions[i].silver_prob = PLMarginal(strengths, i, 2)
                    /\ predictions[i].bronze_prob = PLMarginal(strengths, i, 3)

\* predict returned on a field of 4 entrants with positive, not all equal
\* strengths
C3_Witness ==
    /\ PredictReturned /\ PositiveStrengths /\ N = 4
    /\ \E i, j \in 1..N : athletes[i].strength # athletes[j].strength
    /\ \E i \in 1..N : predictions[i].bronze_prob = PLMarginal(
                           [k \in 1..N |-> athletes[k].strength], i, 3)

\* C4: in any field of n >= 3 entrants, score(a) >= score(b) implies
\* gold_prob(a) >= gold_prob(b), strictly when the score is strictly higher.
C4_Monotone ==
    PredictReturned
        => \A a, b \in 1..N :
             /\ ScoreOf(a) >= ScoreOf(b)
                  => RLeq(predictions[b].gold_prob, predictions[a].gold_prob)
             /\ ScoreOf(a) > ScoreOf(b)
                  => RLess(predictions[b].gold_prob, predictions[a].gold_prob)

\* C5: entrants with equal scores in the same field receive equal gold,
\* silver and bronze probabilities; when all n >= 3 scores are equal and
\* positive, predict returns gold_prob = 1/n for every entrant.
C5_TieInvariance ==
    /\ PredictReturned
         => \A a, b \in 1..N :
              ScoreOf(a) = ScoreOf(b)
                => /\ predictions[a].gold_prob = predictions[b].gold_prob
                   /\ predictions[a].silver_prob = predictions[b].silver_prob
                   /\ predictions[a].bronze_prob = predictions[b].bronze_prob
    /\ (PredictCalled /\ PositiveScores /\ \A a \in 1..N : ScoreOf(a) = ScoreOf(1))
         => /\ raised = "none"
            /\ \A a \in 1..N : predictions[a].gold_prob = Rat(1, N)

\* predict returned on a full tie of 4 entrants, and on a field with a tie
\* of two entrants below the top score
C5_Witness ==
    /\ PredictReturned
    /\ \/ N = 4 /\ PositiveScores /\ \A a \in 1..N : ScoreOf(a) = ScoreOf(1)
       \/ \E a, b, c \in 1..N : a # b /\ ScoreOf(a) = ScoreOf(b) /\ ScoreOf(c) > ScoreOf(a)
                                 /\ ScoreOf(a) > 0

PairwiseDistinctScores == \A a, b \in 1..N : a # b => ScoreOf(a) # ScoreOf(b)

IsTop(a) == \A b \in 1..N : ScoreOf(a) >= ScoreOf(b)

\* the top entrant's gold_prob under another exponent, on the same field
TopGoldUnder(power) ==
    LET r == predict(athletes, power, Zero)
    IN  {r.predictions[a].gold_prob : a \in {x \in 1..N : IsTop(x) /\ r.raised = "none"}}

\* C6: on a field of n >= 3 entrants with pairwise distinct positive scores,
\* for exponents p1 < p2 the gold_prob of the highest-scored entrant under
\* strength_power = p2 is strictly above the one under strength_power = p1.
C6_PowerSensitivity ==
    (PredictCalled /\ PositiveScores /\ PairwiseDistinctScores)
        => /\ raised = "none"
           /\ \A a \in 1..N : \A p2 \in Powers :
                (IsTop(a) /\ strength_power < p2)
                  => /\ TopGoldUnder(p2) # {}
                     /\ \A g2 \in TopGoldUnder(p2) : RLess(predictions[a].gold_prob, g2)

\* predict returned on 3 pairwise distinct positive scores under an exponent
\* that is not the largest
C6_Witness ==
    /\ PredictReturned /\ PositiveScores /\ PairwiseDistinctScores
    /\ N = 3 /\ strength_power < MaxPower

\* C8: when the maximum score of a field of n >= 3 entrants is <= 0, or the
\* total strength is <= 0, predict fails with an error and produces no
\* probability distribution.
C8_DegenerateFieldFails ==
    (/\ PredictCalled
     /\ \/ max_score_of(athletes) <= 0
        \/ RLeq(RSum([i \in 1..N |-> Strength(ScoreOf(i), max_score_of(athletes),
                                              strength_power)]), Zero))
        => raised # "none" /\ predictions = <<>>

\* C9: after calculate_strengths every entrant's strength is > 0, for every
\* field with nonnegative scores and max score > 0, entrants of raw score 0
\* included.
C9_StrengthsPositive ==
    (/\ called = "calculate_strengths"
     /\ N >= 1 /\ NonNegativeScores /\ max_score_of(athletes) > 0)
        => raised = "none" /\ PositiveStrengths

----------------------------------------------------------------------------
\* Properties of the simulator.

\* C7: on a field of fewer than 3 entrants (the empty field included) predict
\* and simulate_competition both return an empty list without raising, and
\* no trial is run and no random number is drawn.
C7_TooFewReturnsEmpty ==
    N < 3
        => /\ called = "predict" => (raised = "none" /\ predictions = <<>>)
           /\ called = "simulate_competition" => (raised = "none" /\ results = <<>>)
           /\ sim_pc = "idle"
           /\ trials = 0
           /\ draws = 0

\* simulate_competition and then predict were called on a field of 2 entrants
C7_Witness ==
    /\ N = 2
    /\ sim_calls = 1
    /\ called = "predict"
    /\ predictions = <<>> /\ results = <<>>

\* The sampler without an extra-noise term: performance = log(strength) +
\* one Gumbel draw, ranked in descending order (stable).
PureAbove(sa, da, sb, db) ==
    floored(sa).num * db.e * floored(sb).den > floored(sb).num * da.e * floored(sa).den

PurePlace(as, ds, i) ==
    1 + Cardinality({j \in 1..Len(as) :
                        \/ PureAbove(as[j].strength, ds[j], as[i].strength, ds[i])
                        \/ /\ j < i
                           /\ ~PureAbove(as[i].strength, ds[i], as[j].strength, ds[j])})

PureMedals(as, ds) ==
    [m \in 1..3 |-> as[CHOOSE i \in 1..Len(as) : PurePlace(as, ds, i) = m].athlete_id]

\* its generator calls for the draws ds: random.random() only
PureCalls(ds) ==
    LET RECURSIVE upto(_)
        upto(i) == IF i = 0 THEN 0 ELSE upto(i - 1) + ds[i].zeros + 1
    IN  upto(Len(ds))

\* the draws of trial t of the current run, n athletes a trial
TrialDraws(t, n) == [i \in 1..n |-> tape[started.pos + (t - 1) * n + i]]

\* the times athlete id took medal m (1 gold, 2 silver, 3 bronze) in the
\* trials whose medals are ms
TimesTaken(ms, id, m) == Cardinality({t \in DOMAIN ms : ms[t][m] = id})

\* C11: with extra_noise_scale = 0 the extra-noise term of every entrant is 0
\* and no generator call is made for it: after any number of trials the
\* generator has been called as often, and the medals have gone to the same
\* entrants, as in the sampler that has no extra-noise term.
C11_NoExtraNoise ==
    (sim_pc = "running" /\ rng.seeded /\ config.extra_noise_scale = 0)
        => /\ rng.pos = started.pos + N * trials
           /\ \A i \in 1..rng.pos : tape[i].g = 0
           /\ rng.calls = PureCalls([i \in 1..rng.pos |-> tape[i]])
           /\ \A ms \in {[t \in 1..trials |-> PureMedals(athletes, TrialDraws(t, N))]} :
                \A i \in 1..N :
                    /\ medal_counts[i].gold = TimesTaken(ms, athletes[i].athlete_id, 1)
                    /\ medal_counts[i].silver = TimesTaken(ms, athletes[i].athlete_id, 2)
                    /\ medal_counts[i].bronze = TimesTaken(ms, athletes[i].athlete_id, 3)

\* two trials without extra noise have run, gumbel_noise has thrown a 0.0
\* away, and the second entrant has taken a gold
C11_Witness ==
    /\ sim_pc = "running" /\ rng.seeded /\ config.extra_noise_scale = 0
    /\ trials = 2
    /\ \E i \in 1..rng.pos : tape[i].zeros > 0
    /\ medal_counts[2].gold = 1

\* C14: two runs of simulate_competition on the same field under the same
\* configuration that start from the same state of the seeded generator
\* return the same simulated gold, silver and bronze frequencies.
C14_Reproducible ==
    \A a, b \in 1..Len(runs) :
        /\ (runs[a].generator.seeded /\ runs[a].generator = runs[b].generator)
              => runs[a].results = runs[b].results
        \* such are the first runs of simulators constructed with the same seed
        /\ (config.seed # None /\ runs[a].call = 1 /\ runs[b].call = 1)
              => runs[a].results = runs[b].results

\* two simulators seeded alike have each returned frequencies of two trials
\* in which different entrants took the gold
C14_Witness ==
    /\ Len(runs) = 2
    /\ runs[1].generator.seeded /\ runs[1].generator = runs[2].generator
    /\ N = 3 /\ Len(runs[2].results) = 3
    /\ \E i \in 1..N : runs[2].results[i].sim_gold_prob = Rat(1, 2)

\* the sum of a medal column of medal_counts
CountSum(m) ==
    LET RECURSIVE upto(_)
        upto(i) == IF i = 0 THEN 0
                   ELSE upto(i - 1) + (CASE m = 1 -> medal_counts[i].gold
                                         [] m = 2 -> medal_counts[i].silver
                                         [] OTHER -> medal_counts[i].bronze)
    IN  upto(Len(medal_counts))

\* simulate_competition has returned the frequencies of its trials
SimulationReturned ==
    /\ sim_pc = "idle" /\ called = "simulate_competition" /\ raised = "none"
    /\ N >= 3 /\ results # <<>>

\* C15: after any number k of trials of simulate_competition the gold, the
\* silver and the bronze counts each sum to k over the entrants, and each
\* count is the number of trials in which that entrant took that medal; the
\* frequencies returned are count / N, so each frequency column sums to 1.
C15_Frequencies ==
    /\ (sim_pc = "running" /\ rng.seeded)
         => /\ \A m \in 1..3 : CountSum(m) = trials
            /\ \A ms \in {[t \in 1..trials |->
                              simulate_once(athletes, TrialDraws(t, N)).medals]} :
                 \A i \in 1..N :
                     /\ medal_counts[i].gold = TimesTaken(ms, athletes[i].athlete_id, 1)
                     /\ medal_counts[i].silver = TimesTaken(ms, athletes[i].athlete_id, 2)
                     /\ medal_counts[i].bronze = TimesTaken(ms, athletes[i].athlete_id, 3)
    /\ SimulationReturned
         => /\ Len(results) = N
            /\ \A i \in 1..N :
                 /\ results[i].athlete_id = athletes[i].athlete_id
                 /\ results[i].sim_gold_prob
                      = Rat(medal_counts[i].gold, config.num_simulations)
                 /\ results[i].sim_silver_prob
                      = Rat(medal_counts[i].silver, config.num_simulations)
                 /\ results[i].sim_bronze_prob
                      = Rat(medal_counts[i].bronze, config.num_simulations)
            /\ RSum([i \in 1..N |-> results[i].sim_gold_prob]) = One
            /\ RSum([i \in 1..N |-> results[i].sim_silver_prob]) = One
            /\ RSum([i \in 1..N |-> results[i].sim_bronze_prob]) = One

\* the frequencies of two trials in which the bronze went to two different
\* entrants
C15_Witness ==
    /\ SimulationReturned /\ rng.seeded
    /\ config.num_simulations = 2
    /\ \E i, j \in 1..N : i # j /\ results[i].sim_bronze_prob = Rat(1, 2)
                                /\ results[j].sim_bronze_prob = Rat(1, 2)

----------------------------------------------------------------------------
\* Properties of run_simulation.

\* the athletes that appear in any entry
Entrants == {entries[i].athlete_id : i \in 1..Len(entries)}

\* the competitions that athlete a is entered in
CompetitionsOf(a) ==
    {entries[i].competition_id : i \in {j \in 1..Len(entries) : entries[j].athlete_id = a}}

\* C12: within one trial of v3, an entrant who appears in two or more
\* competitions has the identical uncertainty multiplier applied to their
\* base strength in every one of those competitions.
C12_SameMultiplier ==
    variant = "v3" =>
        \A x \in applied : \A y \in applied :
            x.athlete_id = y.athlete_id => x.multiplier = y.multiplier

\* a trial of v3 has resolved two competitions that share an entrant whose
\* multiplier is not 1, next to an entrant with another multiplier
C12_Witness ==
    /\ variant = "v3"
    /\ \E x \in applied : \E y \in applied :
        /\ x.athlete_id = y.athlete_id
        /\ x.competition_id # y.competition_id
        /\ x.multiplier # One
    /\ \E x \in applied : \E y \in applied : x.multiplier # y.multiplier

\* C13: in every trial of v3 the multipliers of all entrants that appear in
\* any entry are sampled, exactly once each, before the first competition of
\* that trial is resolved; they are resampled at the start of the next trial;
\* and no entrant of any competition falls back to the default multiplier.
C13_SampledBeforeResolved ==
    variant = "v3" =>
        /\ run_pc = "comps" =>
              /\ DOMAIN athlete_multipliers = Entrants
              /\ sampled = (sim_idx + 1) * Cardinality(Entrants)
        /\ run_pc \in {"trial", "done"} => sampled = sim_idx * Cardinality(Entrants)
        /\ \A x \in applied : ~x.defaulted

\* the second trial of v3 has resolved a competition of 3 entrants, one of
\* whom is in no earlier competition of the batch
C13_Witness ==
    /\ variant = "v3"
    /\ run_pc = "comps"
    /\ sim_idx = 1
    /\ \E x \in applied :
        \A c \in CompetitionsOf(x.athlete_id) : c >= x.competition_id /\ c > 1

\* the sum of one medal's counts over the keys of a dict
MedalSum(d, medal_type) ==
    LET RECURSIVE sum(_)
        sum(keys) == IF keys = {} THEN 0
                     ELSE LET k == CHOOSE x \in keys : TRUE
                          IN  d[k][medal_type] + sum(keys \ {k})
    IN  sum(DOMAIN d)

\* as many gold as silver as bronze awards
Balanced(d) ==
    /\ MedalSum(d, "gold") = MedalSum(d, "silver")
    /\ MedalSum(d, "silver") = MedalSum(d, "bronze")

\* the competitions that entries refer to
EnteredCompetitions == {entries[i].competition_id : i \in 1..Len(entries)}

EntriesOf(c) == {i \in 1..Len(entries) : entries[i].competition_id = c}

\* fewer than 3 entrants
Small(c) == Cardinality(EntriesOf(c)) < 3

\* fewer than 3 entrants, or entries that refer to an unknown athlete or
\* competition
Malformed(c) ==
    \/ Small(c)
    \/ c \notin DOMAIN competitions
    \/ \E i \in EntriesOf(c) : entries[i].athlete_id \notin DOMAIN athlete_table

\* C16: a trial's medal awards are atomic in run_simulation: wherever the
\* loop can stop, the per-country totals and the per-competition per-athlete
\* counts hold, for every trial and competition, all three awards of the
\* competition or none of them.
C16_AtomicAwards ==
    /\ Balanced(sim_medals)
    /\ Balanced(country_medals)
    /\ \A c \in DOMAIN comp_results : Balanced(comp_results[c])
    /\ \A i \in 1..Len(simulation_results) : Balanced(simulation_results[i])

\* C17: in a batch with a malformed competition, run_simulation of predict.py
\* still processes every other competition in every trial, skips the
\* malformed one, and records that it was skipped: the competition is in the
\* per-competition results, without a medal.
C17_SkipRecorded ==
    (variant = "predict" /\ run_pc = "done") =>
        \A c \in EnteredCompetitions :
            IF Malformed(c)
            THEN c \in DOMAIN comp_results /\ MedalSum(comp_results[c], "gold") = 0
            ELSE /\ c \in DOMAIN comp_results
                 /\ \A m \in 1..3 :
                        MedalSum(comp_results[c], MedalTypes[m]) = NUM_SIMULATIONS

\* C18: in every variant a competition of fewer than 3 entrants produces no
\* medal distribution: nothing is awarded for it in any trial, and it adds
\* nothing to a country's or an athlete's counts.
C18_NoMedalsBelowThree ==
    /\ \A c \in EnteredCompetitions : Small(c) => c \notin DOMAIN comp_results
    /\ (\A c \in EnteredCompetitions : Small(c)) =>
          /\ sim_medals = EmptyDict
          /\ country_medals = EmptyDict
          /\ \A i \in 1..Len(simulation_results) : simulation_results[i] = EmptyDict

\* the sum of the values f[x], x in a set
RSumOver(f, xs) ==
    LET RECURSIVE sum(_)
        sum(rest) == IF rest = {} THEN Zero
                     ELSE LET x == CHOOSE y \in rest : TRUE
                          IN  RAdd(f[x], sum(rest \ {x}))
    IN  sum(xs)

\* the results of the athletes of a country
ResultsOf(country) == {i \in 1..Len(athlete_results) : athlete_results[i].country = country}

GoldProbs == [i \in 1..Len(athlete_results) |-> athlete_results[i].gold_prob]

SilverProbs == [i \in 1..Len(athlete_results) |-> athlete_results[i].silver_prob]

BronzeProbs == [i \in 1..Len(athlete_results) |-> athlete_results[i].bronze_prob]

\* the medals of one type that the athletes of a country took in a competition
WonBy(country, comp_id, medal_type) ==
    LET won == [a \in DOMAIN comp_results[comp_id] |->
                   Rat(comp_results[comp_id][a][medal_type], 1)]
    IN  RSumOver(won, {a \in DOMAIN comp_results[comp_id] :
                          athlete_table[a].country = country})

\* ... in all competitions, per trial
ExpectedOf(country, medal_type) ==
    RDivide(RSumOver([c \in DOMAIN comp_results |-> WonBy(country, c, medal_type)],
                     DOMAIN comp_results),
            Rat(NUM_SIMULATIONS, 1))

\* C19: the expected gold (silver, bronze) reported for a country is the sum
\* of the gold (silver, bronze) probabilities of exactly the entrants with
\* that country code, the country total is gold + silver + bronze, and a
\* medal column summed over all countries is the column summed over all
\* entrants.
C19_CountryAggregation ==
    /\ DOMAIN breakdown = {athlete_results[i].country : i \in 1..Len(athlete_results)}
    /\ \A c \in DOMAIN breakdown :
        /\ breakdown[c].expected_gold = RSumOver(GoldProbs, ResultsOf(c))
        /\ breakdown[c].expected_silver = RSumOver(SilverProbs, ResultsOf(c))
        /\ breakdown[c].expected_bronze = RSumOver(BronzeProbs, ResultsOf(c))
    /\ RSumOver([c \in DOMAIN breakdown |-> breakdown[c].expected_gold], DOMAIN breakdown)
           = RSum(GoldProbs)
    /\ RSumOver([c \in DOMAIN breakdown |-> breakdown[c].expected_silver], DOMAIN breakdown)
           = RSum(SilverProbs)
    /\ RSumOver([c \in DOMAIN breakdown |-> breakdown[c].expected_bronze], DOMAIN breakdown)
           = RSum(BronzeProbs)
    /\ run_pc = "done" =>
          \A c \in DOMAIN country_results :
              /\ country_results[c].gold = ExpectedOf(c, "gold")
              /\ country_results[c].silver = ExpectedOf(c, "silver")
              /\ country_results[c].bronze = ExpectedOf(c, "bronze")
              /\ country_results[c].total =
                     RAdd(RAdd(country_results[c].gold, country_results[c].silver),
                          country_results[c].bronze)

\* a run of predict.py is done and the breakdown of one of its competitions
\* has a country with two medal winners, each with a share of the gold, next
\* to another country
C19_Witness ==
    /\ run_pc = "done"
    /\ Cardinality(DOMAIN breakdown) = 2
    /\ \E c \in DOMAIN breakdown :
        /\ Cardinality(ResultsOf(c)) = 2
        /\ \A i \in ResultsOf(c) : RLess(Zero, athlete_results[i].gold_prob)
        /\ RLess(Zero, country_results[c].total)

\* what a country won of a medal in each record of the last call
CountsAsked(medal_type) ==
    LET won(sim) ==
            IF ci_args.country \in DOMAIN sim
            THEN IF medal_type = "total"
                 THEN sim[ci_args.country].gold + sim[ci_args.country].silver
                          + sim[ci_args.country].bronze
                 ELSE sim[ci_args.country][medal_type]
            ELSE 0
    IN  {won(ci_args.simulation_results[i]) : i \in 1..Len(ci_args.simulation_results)}

\* C20: calculate_confidence_intervals, for any non-empty list of per-trial
\* records and any country, returns for each medal type a pair (lower, upper)
\* with lower <= upper, both between the minimum and the maximum of the
\* country's per-trial counts (0 for a trial in which it won nothing); the
\* index into the sorted list is never out of range.
C20_IntervalsInRange ==
    ci_args # <<>> =>
        /\ intervals.raised = "none"
        /\ \A medal_type \in DOMAIN intervals.pairs :
            \A least \in {x \in CountsAsked(medal_type) :
                             \A y \in CountsAsked(medal_type) : x <= y} :
            \A most \in {x \in CountsAsked(medal_type) :
                            \A y \in CountsAsked(medal_type) : y <= x} :
                /\ RLeq(intervals.pairs[medal_type].lower, intervals.pairs[medal_type].upper)
                /\ RLeq(Rat(least, 1), intervals.pairs[medal_type].lower)
                /\ RLeq(intervals.pairs[medal_type].upper, Rat(most, 1))

\* v3 was asked about MaxRecords records, unsorted, one of them without the
\* country, and returned a gold interval strictly inside the counts
C20_Witness ==
    /\ ci_args # <<>>
    /\ ci_args.impl = "v3"
    /\ Len(ci_args.simulation_results) = MaxRecords
    /\ ci_args.country \notin DOMAIN ci_args.simulation_results[2]
    /\ ci_args.country \in DOMAIN ci_args.simulation_results[1]
    /\ ci_args.simulation_results[1][ci_args.country].gold = MaxCount
    /\ RLess(Zero, intervals.pairs["gold"].lower)
    /\ RLess(intervals.pairs["gold"].lower, intervals.pairs["gold"].upper)
    /\ RLess(intervals.pairs["gold"].upper, Rat(MaxCount, 1))

----------------------------------------------------------------------------
\* The convergence validator.

\* |simulated - exact| of one result in one medal column
Deviation(r, column) ==
    CASE column = "gold" -> RAbs(RSub(r.sim_gold_prob, r.exact_gold_prob))
      [] column = "silver" -> RAbs(RSub(r.sim_silver_prob, r.exact_silver_prob))
      [] column = "bronze" -> RAbs(RSub(r.sim_bronze_prob, r.exact_bronze_prob))

\* validate_convergence returned a summary of the results at hand
Validated == called = "validate_convergence" /\ convergence # <<>>

\* C21, as claimed: converged is true exactly when the deviation of every
\* entrant in every medal column (gold, silver, bronze) is below the
\* tolerance.
C21_EveryColumn ==
    Validated =>
        (convergence[1].converged <=>
            \A i \in 1..Len(results) : \A column \in {"gold", "silver", "bronze"} :
                RLess(Deviation(results[i], column), convergence[1].tolerance))

\* C21, amended: validate_convergence reports the maximum and the mean over
\* the entrants of the absolute deviation of the gold column, and converged
\* is true exactly when the gold deviation of every entrant is below the
\* tolerance; the silver and bronze columns are not compared.
C21_GoldColumn ==
    Validated =>
        LET v == convergence[1]
            n == Len(results)
        IN  /\ \A i \in 1..n : RLeq(Deviation(results[i], "gold"), v.max_gold_error)
            /\ \E i \in 1..n : Deviation(results[i], "gold") = v.max_gold_error
            /\ RMul(v.avg_gold_error, Rat(n, 1))
                   = RSum([i \in 1..n |-> Deviation(results[i], "gold")])
            /\ v.converged <=>
                   \A i \in 1..n : RLess(Deviation(results[i], "gold"), v.tolerance)

\* a summary that says converged while a silver or bronze frequency is off
\* by the tolerance or more
C21_Witness ==
    /\ Validated
    /\ convergence[1].converged
    /\ \E i \in 1..Len(results) : \E column \in {"silver", "bronze"} :
           ~RLess(Deviation(results[i], column), convergence[1].tolerance)

\* C22: no call of validate_convergence whose maximum deviation is at or
\* above the tolerance completes without a ConvergenceWarning issued to the
\* caller.
C22_DeviationWarned ==
    (Validated /\ ~RLess(convergence[1].max_gold_error, convergence[1].tolerance))
        => "ConvergenceWarning" \in warnings

----------------------------------------------------------------------------
\* Purity of the exact engine.

\* the field as create_athletes_from_scores builds it from the same scores
Rebuilt(as) == create_athletes_from_scores([i \in 1..Len(as) |-> as[i].score])

\* the distribution a call of predict returns is that of the field built
\* anew from the scores, whatever was called before
DependsOnScoresOnly ==
    (called' = "predict" /\ raised' = "none")
        => \E residue \in ResiduesAt(Rebuilt(athletes), strength_power) :
               predictions' = predict(Rebuilt(athletes), strength_power, residue).predictions

C23_DependsOnScoresOnly == [][DependsOnScoresOnly]_vars

\* C23: predict and calculate_strengths (and with them simulate_competition)
\* leave every attribute of the entrant records passed in unchanged, the
\* strength included, and the returned distribution depends only on the
\* scores and the power, not on any earlier call.
C23_Pure == [][athletes' = athletes /\ DependsOnScoresOnly]_vars

\* C24: a negative raw score is rejected with InvalidScoreError or floored
\* before the strength is computed: once calculate_strengths has run without
\* that error, no entrant of negative score has a strength greater than that
\* of an entrant with a higher nonnegative score in the same field.
C24_NegativeScoreHandled ==
    (called \in {"calculate_strengths", "predict"} /\ raised # "InvalidScoreError")
        => \A a, b \in 1..N :
               (ScoreOf(a) < 0 /\ ScoreOf(b) >= 0 /\ raised = "none"
                    /\ (called = "predict" => N >= 3))
                   => RLeq(athletes[a].strength, athletes[b].strength)

----------------------------------------------------------------------------
\* Isolation of the simulators' random draws.

\* C25: no simulator's draws, and no construction or seeding of another
\* simulator, change the outcomes of a simulator: each draws from its own
\* generator seeded with config.seed, so its first simulate_competition
\* starts from the freshly seeded state.
C25_OwnGenerator ==
    (called = "simulate_competition" /\ config.seed # None /\ sim_calls = 1)
        => started = random_seed(config.seed[1])

----------------------------------------------------------------------------
\* Competitions of different sizes in one run of predict.py.

\* the places in comp_entries of the competitions of 3 entrants or more
Resolvable == {i \in 1..Len(comp_entries) : Len(comp_entries[i].entries) >= 3}

\* the passes of the trial loop in which the competition at place i of
\* comp_entries has been resolved
TimesResolved(i) ==
    IF run_pc = "comps" /\ i < comp_idx THEN sim_idx + 1 ELSE sim_idx

\* the medals of one type awarded in a competition so far
AwardedIn(comp_id, medal_type) ==
    IF comp_id \in DOMAIN comp_results THEN MedalSum(comp_results[comp_id], medal_type)
    ELSE 0

\* C26: field sizes may differ between the competitions: in every trial of
\* predict.py's run_simulation each competition of at least 3 entrants
\* awards exactly one gold, one silver and one bronze, and the golds of a
\* trial, summed over the countries, are as many as the competitions of at
\* least 3 entrants (and so the silvers and the bronzes).
C26_OnePerCompetition ==
    (variant = "predict" /\ run_pc # "idle") =>
        /\ \A i \in Resolvable : \A m \in 1..3 :
               AwardedIn(comp_entries[i].comp_id, MedalTypes[m]) = TimesResolved(i)
        /\ \A t \in 1..Len(simulation_results) : \A m \in 1..3 :
               MedalSum(simulation_results[t], MedalTypes[m]) = Cardinality(Resolvable)

\* a run of all its trials over a competition of 3 and one of more entrants
C26_Witness ==
    /\ variant = "predict" /\ run_pc = "done"
    /\ Len(simulation_results) = NUM_SIMULATIONS
    /\ \E i, j \in Resolvable :
           Len(comp_entries[i].entries) < Len(comp_entries[j].entries)

----------------------------------------------------------------------------
\* The logarithms of the sampler.

\* the entrant that the k-th served draws of the seeded generator were for
DrawnFor(k) == athletes[((k - 1) % N) + 1]

\* C27: the sampler never takes a logarithm at a non-positive argument: in
\* simulate_once the strength under log is floored at 0.0001, and
\* gumbel_noise draws again while the uniform draw is 0, so that log(u) and
\* log(-log(u)) are defined for every field (entrants of strength 0
\* included) and all results of the generator in [0, 1); gumbel_noise
\* returns as soon as the generator yields a nonzero value.
C27_LogDefined ==
    (rng.seeded /\ N >= 3) =>
        \A k \in 1..Len(tape) :
            LET g == gumbel_noise(random_outputs(tape[k]))
            IN  /\ RLess(Zero, floored(DrawnFor(k).strength))
                /\ RLess(Zero, g.u) /\ RLess(g.u, One)
                /\ g.calls = tape[k].zeros + 1
                /\ \A c \in 1..(g.calls - 1) : random_outputs(tape[k])[c] = Zero

\* a trial in which an entrant of strength 0 was served a draw that followed
\* a 0.0 of the generator
C27_Witness ==
    /\ rng.seeded /\ N >= 3 /\ trials >= 1 /\ raised = "none"
    /\ \E k \in 1..Len(tape) : DrawnFor(k).strength = Zero /\ tape[k].zeros >= 1

----------------------------------------------------------------------------
\* The three winners of a trial.

\* comp_results[comp_id][athlete_id][medal_type], 0 where the defaultdict
\* has no such key
CountIn(cr, comp_id, athlete_id, medal_type) ==
    IF comp_id \in DOMAIN cr /\ athlete_id \in DOMAIN cr[comp_id]
    THEN cr[comp_id][athlete_id][medal_type] ELSE 0

\* the sum of f over a finite set
SumOver(f, xs) ==
    LET RECURSIVE sum(_)
        sum(rest) == IF rest = {} THEN 0
                     ELSE LET x == CHOOSE y \in rest : TRUE
                          IN  f[x] + sum(rest \ {x})
    IN  sum(xs)

\* a trial of simulate_once on n >= 3 entrants: each medal went to exactly
\* one entrant of the field and no entrant took two
SimulatorWinnersDistinct ==
    (sim_pc = "running" /\ trials' = trials + 1 /\ raised' = "none" /\ N >= 3) =>
        LET gained == [i \in 1..N |->
                          [m \in 1..3 |-> medal_counts'[i][MedalTypes[m]]
                                              - medal_counts[i][MedalTypes[m]]]]
        IN  /\ \A m \in 1..3 : SumOver([i \in 1..N |-> gained[i][m]], 1..N) = 1
            /\ \A i \in 1..N : \A m \in 1..3 : gained[i][m] \in {0, 1}
            /\ \A i \in 1..N : gained[i][1] + gained[i][2] + gained[i][3] <= 1

\* a competition of n >= 3 entries resolved by v2: the same of its entrants
V2WinnersDistinct ==
    (variant = "v2" /\ run_pc = "comps" /\ comp_idx' = comp_idx + 1
         /\ Len(comp_entries[comp_idx].entries) >= 3) =>
        LET c == comp_entries[comp_idx].comp_id
            ids == athlete_ids_of(comp_entries[comp_idx].entries)
            gained == [a \in ids |->
                          [m \in 1..3 |-> CountIn(comp_results', c, a, MedalTypes[m])
                                              - CountIn(comp_results, c, a, MedalTypes[m])]]
        IN  /\ DOMAIN comp_results'[c] \subseteq ids
            /\ \A m \in 1..3 : SumOver([a \in ids |-> gained[a][m]], ids) = 1
            /\ \A a \in ids : \A m \in 1..3 : gained[a][m] \in {0, 1}
            /\ \A a \in ids : gained[a][1] + gained[a][2] + gained[a][3] <= 1

\* C28: in every trial on a field of n >= 3 entrants with unique ids the
\* gold, silver and bronze winners are three pairwise distinct entrants of
\* that field, under the Gumbel ranking of simulate_once and under the three
\* power_weighted_select of v2, each of which leaves the list it was given
\* without exactly the entrant it selected.
C28_DistinctWinners == [][SimulatorWinnersDistinct /\ V2WinnersDistinct]_vars

\* v2 has run all its trials over a competition of more than 3 entrants, and
\* the medals of the competition went to more than 3 of them over the trials
C28_Witness ==
    /\ variant = "v2" /\ run_pc = "done"
    /\ \E i \in 1..Len(comp_entries) :
           /\ Len(comp_entries[i].entries) > 3
           /\ comp_entries[i].comp_id \in DOMAIN comp_results
           /\ Cardinality(DOMAIN comp_results[comp_entries[i].comp_id]) > 3

----------------------------------------------------------------------------
\* The excluded athletes.

\* the athletes with a row in excluded_athletes
Excluded == database.excluded_athletes

\* the medals of one type that the athletes of a country won, over all the
\* competitions and trials so far, the excluded athletes left out
WonByIncluded(country, medal_type) ==
    SumOver([c \in DOMAIN comp_results |->
                SumOver([a \in DOMAIN comp_results[c] |->
                            IF a \notin Excluded /\ CountryOf(a) = country
                            THEN comp_results[c][a][medal_type] ELSE 0],
                        DOMAIN comp_results[c])],
            DOMAIN comp_results)

\* C29: an athlete listed in the table excluded_athletes takes part in no
\* simulated competition of predict.py: the loaded athletes and entries and
\* the fields built from them hold none of them, in no trial do they receive
\* a medal, and the counts of a country are the medals of its other athletes,
\* whichever pipeline inserted their entries.
C29_ExcludedNeverCompete ==
    loaded =>
        /\ DOMAIN athlete_table \cap Excluded = {}
        /\ \A i \in 1..Len(entries) : entries[i].athlete_id \notin Excluded
        /\ \A i \in 1..Len(comp_entries) :
               athlete_ids_of(comp_entries[i].entries) \cap Excluded = {}
        /\ \A c \in DOMAIN comp_results : DOMAIN comp_results[c] \cap Excluded = {}
        /\ run_pc \in {"trial", "done"} =>
               \A country \in {"NOR", "SWE"} : \A m \in 1..3 :
                   WonByIncluded(country, MedalTypes[m])
                       = IF country \in DOMAIN country_medals
                         THEN country_medals[country][MedalTypes[m]] ELSE 0

\* a finished run over a competition in which 3 athletes took the medals
\* while the table entries holds an entry of an excluded athlete in it
C29_Witness ==
    /\ loaded /\ run_pc = "done"
    /\ \E c \in DOMAIN comp_results :
           /\ Cardinality(DOMAIN comp_results[c]) >= 3
           /\ \E i \in 1..Len(database.entries) :
                  /\ database.entries[i].competition_id = c
                  /\ database.entries[i].athlete_id \in Excluded

----------------------------------------------------------------------------
\* The accumulators of run_simulation.

\* the countries of the per-trial records
RecordedCountries == UNION {DOMAIN simulation_results[s] : s \in 1..Len(simulation_results)}

\* the sum of a country's counts of one medal type over the per-trial records
RecordedSum(country, medal_type) ==
    SumOver([s \in 1..Len(simulation_results) |->
                IF country \in DOMAIN simulation_results[s]
                THEN simulation_results[s][country][medal_type] ELSE 0],
            1..Len(simulation_results))

\* C30: when the loop of run_simulation has ended, simulation_results holds
\* exactly one record per trial, NUM_SIMULATIONS in all, the trials without
\* a medal included; for every country and medal type the reported mean
\* times NUM_SIMULATIONS is the sum of the country's counts over the
\* per-trial records; and the reported total is gold + silver + bronze.
C30_AccumulatorsConsistent ==
    /\ Len(simulation_results) = sim_idx
    /\ run_pc = "done" =>
        /\ Len(simulation_results) = NUM_SIMULATIONS
        /\ DOMAIN country_results = RecordedCountries
        /\ \A country \in DOMAIN country_results :
            /\ \A m \in 1..3 :
                   RMul(country_results[country][MedalTypes[m]], Rat(NUM_SIMULATIONS, 1))
                       = Rat(RecordedSum(country, MedalTypes[m]), 1)
            /\ country_results[country].total
                   = RAdd(RAdd(country_results[country].gold,
                               country_results[country].silver),
                          country_results[country].bronze)

\* a finished run of predict.py or v3 whose first and last per-trial records
\* differ and in which some country took gold in exactly one trial
C30_Witness ==
    /\ run_pc = "done" /\ variant \in {"predict", "v3"}
    /\ Len(simulation_results) = NUM_SIMULATIONS
    /\ simulation_results[1] # simulation_results[NUM_SIMULATIONS]
    /\ \E country \in DOMAIN country_results : RecordedSum(country, "gold") = 1

====
